---- MODULE Spec2Model ----
(***************************************************************************)
(* A model of the PricingEngine core: CurveNodes (term-structure nodes     *)
(* with a lazily built, cached handle and parallel bumps), the swap legs,  *)
(* InterestRateSwap and Swaption.                                          *)
(*                                                                         *)
(* Encoding of numbers.  Dates are integers counted in years and the day   *)
(* counter is the plain difference, yearFraction(a, d) = d - a.  Rates     *)
(* (quote kinds zero, flat, forward) and bumps are integers counted in     *)
(* basis points, so that bp / 10_000.0 added to a rate is bp added to      *)
(* its integer.  A discount factor df is held by z = -10000 * ln(df):      *)
(* df <= 1 is z >= 0, df = 1 is z = 0, and the discount factor 0.0 is      *)
(* z = DfZero.  With this, exp(-(r + bump_r) * t) for r = -log(df) / t     *)
(* is exp(z + bp * t), where exp rounds to a double: to 0.0 from DfZero    *)
(* on, and to the smallest double above 0.0 just below DfZero.             *)
(***************************************************************************)
EXTENDS Integers, Sequences, FiniteSets, TLC

VARIABLES
    curves,    \* the CurveNodes objects alive, by identity 1..Len(curves)
    handles,   \* handles[o]: the YieldTermStructureHandle objects built by
               \* calls on curve o, in order; <<o, k>> names the k-th
    last,      \* the last call: operation, receiver, arguments, result
    swap,      \* the InterestRateSwap objects alive (at most one)
    readers,   \* threads inside CurveNodes.yts_handle (concurrent model)
    leg,       \* the swap leg object alive on its own (at most one)
    caller     \* the dates and quotes objects of the calling program, and
               \* the curves whose fields are these very objects

vars == <<curves, handles, last, swap, readers, leg, caller>>

----------------------------------------------------------------------------
(* Bounds of the model *)

MaxLen == 2        \* longest dates / quotes sequence passed to a constructor
MaxDate == 1       \* dates are 0..MaxDate
MaxCurves == 2     \* CurveNodes objects alive at once
NumReaders == 2    \* threads calling yts_handle on one curve
MaxLegDate == 3    \* the dates of a leg on its own are 0..MaxLegDate

----------------------------------------------------------------------------
(* Values *)

OK == "ok"

\* _yts_handle: YieldTermStructureHandle | None = field(default=None, ...)
NoHandle == <<>>

\* no swap has been constructed
NoSwap == <<>>

\* no leg has been constructed
NoLeg == <<>>

\* the calling program keeps no sequence of its own
NoCaller == <<>>

\* A value the pricing library computes, or a float computed from such
\* values, is kept as the expression that computes it: [fn, args].
\* the float 0.0
Float0 == [fn |-> "0.0", args |-> <<>>]

\* no value: the call raised, or returned None
NoValue == [fn |-> "None", args |-> <<>>]

\* the result of a valuation call that raised e
Raised(e, cs, hs, b) ==
    [err |-> e, curves |-> cs, handles |-> hs, ret |-> NoValue, built |-> b]

\* z-encoding of the discount factor 0.0 of `0.0 < v <= 1.0`:
\* exp(-z / 10000) is 0.0 in double precision from z = 7451333 on
\* (exp(-745.1332) is 5e-324 and exp(-745.1333) is 0.0)
DfZero == 7451333

\* z-encoding of 5e-324 = 2^-1074, the smallest double above 0.0:
\* -log(5e-324) is 744.4400719...
DfMin == 7444401

\* exp(-z / 10000) is 5e-324 from z = 7440347 to DfZero - 1: what lies
\* between 0.5 * 2^-1074 and 1.5 * 2^-1074 rounds to 2^-1074
DfSubnormal == 7440347

QuoteKind == {"zero", "discount", "forward", "flat"}
\* quote_kind is a Literal annotation, which Python does not enforce
AnyQuoteKind == QuoteKind \cup {"spread"}
CurveRole == {"discounting", "forecasting", "other"}
\* role: CurveRole = "discounting", and the default of each alternate constructor
DefaultRole(ctor) == IF ctor = "from_forwards" THEN "forecasting" ELSE "discounting"

Dates == 0..MaxDate
AsOfs == {0}
QuoteValues == {-1, 0, 1, DfZero}
\* bp of bump(bp): one basis point down and up, and a bump that takes
\* 5e-324 past the smallest double
Bumps == {-1, 1, 7000}

SeqsUpTo(S, n) == UNION {[1..k -> S] : k \in 0..n}

yearFraction(a, d) == d - a

----------------------------------------------------------------------------
(* CurveNodes: construction *)

\* __post_init__ comparing adjacent dates with >= : equal dates pass
post_init_nonstrict(dates, quotes, quote_kind) ==
    IF Len(dates) = 0
    THEN "ValueError: at least one node is required"
    ELSE IF Len(dates) # Len(quotes)
    THEN "ValueError: dates and quotes must have the same length"
    ELSE IF \E i \in 2..Len(dates) : ~(dates[i] >= dates[i - 1])
    THEN "ValueError: dates must be strictly increasing"
    ELSE IF quote_kind = "discount"
            /\ ~(\A i \in 1..Len(quotes) : quotes[i] < DfZero /\ quotes[i] >= 0)
    THEN "ValueError: discount factors must lie in (0, 1]"
    ELSE OK

\* CurveNodes.__post_init__ : OK, or the message of the ValueError raised
post_init(dates, quotes, quote_kind) ==
    IF Len(dates) = 0
    THEN "ValueError: at least one node is required"
    ELSE IF Len(dates) # Len(quotes)
    THEN "ValueError: dates and quotes must have the same length"
    ELSE IF \E i \in 2..Len(dates) : ~(dates[i] > dates[i - 1])
    THEN "ValueError: dates must be strictly increasing"
    ELSE IF quote_kind = "discount"
            /\ ~(\A i \in 1..Len(quotes) : quotes[i] < DfZero /\ quotes[i] >= 0)
    THEN "ValueError: discount factors must lie in (0, 1]"
    ELSE OK

\* the two modules that define a class CurveNodes: termstructures names its
\* fields as_of and day_counter and caches the handle in a cached_property
\* yts_handle; structures names them asof and day_count and caches the
\* handle in a field behind a method yts_handle()
Modules == {"termstructures", "structures"}

\* the dataclass fields of a freshly constructed CurveNodes of the class
\* that module defines (as_of and day_counter stand for asof and day_count
\* of structures too)
CurveNodes(module, as_of, dates, quotes, day_counter, quote_kind, role) ==
    [module |-> module, as_of |-> as_of, dates |-> dates, quotes |-> quotes,
     day_counter |-> day_counter, quote_kind |-> quote_kind,
     role |-> role, yts_handle |-> NoHandle]

\* cls(...): the object exists only when __post_init__ returns
\* [err, curves, ret]
construct(cs, module, as_of, dates, quotes, day_counter, quote_kind, role) ==
    LET e == post_init(dates, quotes, quote_kind) IN
    IF e # OK
    THEN [err |-> e, curves |-> cs, ret |-> 0]
    ELSE [err |-> OK,
          curves |-> Append(cs, CurveNodes(module, as_of, dates, quotes, day_counter,
                                           quote_kind, role)),
          ret |-> Len(cs) + 1]

----------------------------------------------------------------------------
(* The external curve objects (QuantLib), as far as the code relies on them *)

\* FlatForward(reference_date, QuoteHandle(SimpleQuote(rate)), day_counter)
FlatForward(ref, rate, dc) ==
    [err |-> OK,
     yts |-> [ctor |-> "FlatForward", dates |-> <<ref>>, data |-> <<rate>>,
              day_counter |-> dc]]

\* ZeroCurve(dates, yields, day_counter): the first date is the reference date
ZeroCurve(dates, yields, dc) ==
    [err |-> OK,
     yts |-> [ctor |-> "ZeroCurve", dates |-> dates, data |-> yields,
              day_counter |-> dc]]

\* ForwardCurve(dates, forwards, day_counter)
ForwardCurve(dates, forwards, dc) ==
    [err |-> OK,
     yts |-> [ctor |-> "ForwardCurve", dates |-> dates, data |-> forwards,
              day_counter |-> dc]]

\* DiscountCurve(dates, discounts, day_counter): requires increasing dates and
\* a first discount of 1.0 (z = 0), and raises RuntimeError otherwise
DiscountCurve(dates, discounts, dc) ==
    IF \E i \in 2..Len(dates) : ~(dates[i] > dates[i - 1])
    THEN [err |-> "RuntimeError: dates not sorted", yts |-> <<>>]
    ELSE IF discounts[1] # 0
    THEN [err |-> "RuntimeError: the first discount must be == 1.0", yts |-> <<>>]
    ELSE [err |-> OK,
          yts |-> [ctor |-> "DiscountCurve", dates |-> dates, data |-> discounts,
                   day_counter |-> dc]]

RECURSIVE ForwardIntegral(_, _, _)
\* sum of forwards[j] * (t[j] - t[j-1]) for j in 2..i (backward-flat forwards)
ForwardIntegral(dates, forwards, i) ==
    IF i <= 1 THEN 0
    ELSE ForwardIntegral(dates, forwards, i - 1)
         + forwards[i] * yearFraction(dates[i - 1], dates[i])

NodeOf(dates, d) == CHOOSE i \in 1..Len(dates) : dates[i] = d

\* yts.discount(d) at the reference date, at a node date or, for a flat curve,
\* at any date from the reference date on: [err, df], df in the z-encoding
discount(yts, d) ==
    IF d < yts.dates[1]
    THEN [err |-> "RuntimeError: negative time", df |-> 0]
    ELSE IF yts.ctor = "FlatForward"
    THEN [err |-> OK, df |-> yts.data[1] * yearFraction(yts.dates[1], d)]
    ELSE IF d > yts.dates[Len(yts.dates)]
    THEN [err |-> "RuntimeError: time is past max curve time", df |-> 0]
    ELSE LET i == NodeOf(yts.dates, d) IN
         IF yts.ctor = "ZeroCurve"
         THEN [err |-> OK, df |-> yts.data[i] * yearFraction(yts.dates[1], d)]
         ELSE IF yts.ctor = "DiscountCurve"
         THEN [err |-> OK, df |-> yts.data[i]]
         ELSE [err |-> OK, df |-> ForwardIntegral(yts.dates, yts.data, i)]

\* the dates at which discount is modelled: any date for a flat curve, and the
\* node dates and the dates outside the curve's range for an interpolated one
Queryable(yts, d) ==
    \/ yts.ctor = "FlatForward"
    \/ \E i \in 1..Len(yts.dates) : yts.dates[i] = d
    \/ d < yts.dates[1]
    \/ d > yts.dates[Len(yts.dates)]

----------------------------------------------------------------------------
(* CurveNodes: the cached handle *)

\* the branch on quote_kind in yts_handle: [err, yts]
build_yts(self) ==
    IF self.quote_kind = "zero"
    THEN IF Len(self.quotes) = 1
         THEN FlatForward(self.as_of, self.quotes[1], self.day_counter)
         ELSE ZeroCurve(self.dates, self.quotes, self.day_counter)
    ELSE IF self.quote_kind = "discount"
    THEN IF Len(self.quotes) < 2
         THEN [err |-> "ValueError: discount curve needs at least two discount nodes",
               yts |-> <<>>]
         ELSE IF self.dates[1] # self.as_of
         THEN DiscountCurve(<<self.as_of>> \o self.dates, <<0>> \o self.quotes,
                            self.day_counter)
         ELSE DiscountCurve(self.dates, self.quotes, self.day_counter)
    ELSE IF self.quote_kind = "forward"
    THEN IF Len(self.quotes) < 2
         THEN [err |-> "ValueError: forward curve needs at least two nodes",
               yts |-> <<>>]
         ELSE ForwardCurve(self.dates, self.quotes, self.day_counter)
    ELSE IF self.quote_kind = "flat"
    THEN IF Len(self.quotes) # 1
         THEN [err |-> "ValueError: quote_kind=flat expects exactly one zero rate",
               yts |-> <<>>]
         ELSE FlatForward(self.as_of, self.quotes[1], self.day_counter)
    ELSE [err |-> "ValueError: Unsupported quote_kind", yts |-> <<>>]

\* YieldTermStructureHandle(yts): a new handle object on the curve yts
YieldTermStructureHandle(yts) == [yts |-> yts]

\* the handle object named h
Deref(hs, h) == hs[h[1]][h[2]]

\* the handle lists of the curves cs, empty for the curves hs does not know yet
HandlesFor(hs, cs) ==
    IF Len(cs) = Len(hs) THEN hs
    ELSE hs \o [o \in 1..(Len(cs) - Len(hs)) |-> <<>>]

\* yts_handle without the `if h is not None: return h` shortcut
yts_handle_uncached(cs, hs, o) ==
    LET b == build_yts(cs[o]) IN
    IF b.err # OK
    THEN [err |-> b.err, curves |-> cs, handles |-> hs, ret |-> NoHandle,
          built |-> FALSE]
    ELSE LET handle == <<o, Len(hs[o]) + 1>> IN
         [err |-> OK, built |-> TRUE,
          curves |-> [cs EXCEPT ![o].yts_handle = handle],
          handles |-> [hs EXCEPT ![o] = Append(@, YieldTermStructureHandle(b.yts))],
          ret |-> handle]

\* CurveNodes.yts_handle on object o: [err, curves, handles, ret, built];
\* built tells whether this call constructed a curve object
yts_handle(cs, hs, o) ==
    LET store(b) ==
            IF b.err # OK
            THEN [err |-> b.err, curves |-> cs, handles |-> hs, ret |-> NoHandle,
                  built |-> FALSE]
            ELSE LET handle == <<o, Len(hs[o]) + 1>> IN
                 [err |-> OK, built |-> TRUE,
                  curves |-> [cs EXCEPT ![o].yts_handle = handle],
                  handles |-> [hs EXCEPT ![o] = Append(@, YieldTermStructureHandle(b.yts))],
                  ret |-> handle]
    IN
    IF cs[o].yts_handle # NoHandle
    THEN [err |-> OK, curves |-> cs, handles |-> hs, ret |-> cs[o].yts_handle,
          built |-> FALSE]
    ELSE store(build_yts(cs[o]))

\* CurveNodes.to_handle
to_handle(cs, hs, o) == yts_handle(cs, hs, o)

\* the expression nodes.yts_handle() of the instruments: a method call on a
\* structures object; on a termstructures object a read of the cached
\* property, which builds and caches the handle, and then a call of the
\* handle read, which raises TypeError
yts_handle_called(cs, hs, o) ==
    LET called(h) ==
            IF h.err = OK /\ cs[o].module = "termstructures"
            THEN [h EXCEPT !.err = "TypeError: YieldTermStructureHandle object is not callable",
                           !.ret = NoHandle]
            ELSE h
    IN called(yts_handle(cs, hs, o))

\* CurveNodes.discount_factor: [err, curves, handles, ret, built]
discount_factor(cs, hs, o, d) ==
    LET at(r, v) ==
            [err |-> v.err, curves |-> r.curves, handles |-> r.handles, ret |-> v.df,
             built |-> r.built]
        on(r) ==
            IF r.err # OK THEN [r EXCEPT !.ret = 0]
            ELSE at(r, discount(Deref(r.handles, r.ret).yts, d))
    IN on(yts_handle(cs, hs, o))

----------------------------------------------------------------------------
(* CurveNodes: bump *)

\* exp(-z / 10000) as the double math.exp returns, in the z-encoding; the
\* doubles between 5e-324 and the normal ones are not told apart from the
\* reals (no quote of the model lies there)
exp(z) ==
    IF z >= DfZero THEN DfZero
    ELSE IF z >= DfSubnormal THEN DfMin
    ELSE z

\* the bumped discount factors without the guard on t <= 0
new_discounts_unguarded(self, bump_r) ==
    [i \in 1..Len(self.quotes) |->
        exp(self.quotes[i] + bump_r * yearFraction(self.as_of, self.dates[i]))]

\* the bumped discount factors: exp(-(r + bump_r) * t) with r = -log(df) / t,
\* and df itself where t <= 0
new_discounts(self, bump_r) ==
    [i \in 1..Len(self.quotes) |->
        LET t == yearFraction(self.as_of, self.dates[i]) IN
        IF t <= 0 THEN self.quotes[i] ELSE exp(self.quotes[i] + bump_r * t)]

\* bump shifting the receiver's own quotes and returning the receiver
bump_in_place(cs, o, bp) ==
    [err |-> OK,
     curves |-> [cs EXCEPT ![o].quotes = [i \in 1..Len(@) |-> @[i] + bp]],
     ret |-> o]

\* bump building the new curve with the default role
bump_default_role(cs, o, bp) ==
    LET self == cs[o] IN
    construct(cs, self.module, self.as_of, self.dates,
              IF self.quote_kind = "discount" THEN new_discounts(self, bp)
              ELSE [i \in 1..Len(self.quotes) |-> self.quotes[i] + bp],
              self.day_counter, self.quote_kind, "discounting")

\* CurveNodes.bump on object o: [err, curves, ret]
bump(cs, o, bp) ==
    LET self == cs[o]
        bump_r == bp
    IN
    IF self.quote_kind \in {"zero", "flat"}
    THEN construct(cs, self.module, self.as_of, self.dates,
                   [i \in 1..Len(self.quotes) |-> self.quotes[i] + bump_r],
                   self.day_counter, self.quote_kind, self.role)
    ELSE IF self.quote_kind = "discount"
    THEN construct(cs, self.module, self.as_of, self.dates, new_discounts(self, bump_r),
                   self.day_counter, "discount", self.role)
    ELSE IF self.quote_kind = "forward"
    THEN construct(cs, self.module, self.as_of, self.dates,
                   [i \in 1..Len(self.quotes) |-> self.quotes[i] + bump_r],
                   self.day_counter, "forward", self.role)
    ELSE [err |-> OK, curves |-> cs, ret |-> o]

----------------------------------------------------------------------------
(* The sequential model of CurveNodes: a program calls one constructor; if *)
(* that succeeds it goes on to read and bump the curve and its bumps.      *)

\* what a call leaves to observe: its result or error, and whether it
\* constructed a curve object (a QuantLib term structure)
Call(op, self, args, ret, err, built) ==
    [op |-> op, self |-> self, args |-> args, ret |-> ret, err |-> err,
     built |-> built]

Init ==
    /\ curves = <<>>
    /\ handles = <<>>
    /\ last = Call("none", 0, <<>>, 0, OK, FALSE)
    /\ swap = NoSwap
    /\ readers = <<>>
    /\ leg = NoLeg
    /\ caller = NoCaller

\* CurveNodes(as_of=, dates=, quotes=, day_counter=, quote_kind=); here and in
\* the alternate constructors role is left at its default
CurveNodes_init ==
    /\ last.op = "none"
    /\ \E as_of \in AsOfs, dates \in SeqsUpTo(Dates, MaxLen),
          quotes \in SeqsUpTo(QuoteValues, MaxLen),
          quote_kind \in AnyQuoteKind :
        LET role == DefaultRole("CurveNodes")
            r == construct(curves, "termstructures", as_of, dates, quotes, "Actual365Fixed",
                           quote_kind, role) IN
        /\ curves' = r.curves
        /\ handles' = HandlesFor(handles, r.curves)
        /\ last' = Call("CurveNodes", 0, <<as_of, dates, quotes, quote_kind, role>>,
                        r.ret, r.err, FALSE)
    /\ UNCHANGED <<swap, readers, leg, caller>>

\* CurveNodes.from_zeros(as_of, dates, zeros, day_counter)
CurveNodes_from_zeros ==
    /\ last.op = "none"
    /\ \E as_of \in AsOfs, dates \in SeqsUpTo(Dates, MaxLen),
          zeros \in SeqsUpTo(QuoteValues, MaxLen) :
        LET role == DefaultRole("from_zeros")
            r == construct(curves, "termstructures", as_of, dates, zeros, "Actual365Fixed",
                           "zero", role) IN
        /\ curves' = r.curves
        /\ handles' = HandlesFor(handles, r.curves)
        /\ last' = Call("from_zeros", 0, <<as_of, dates, zeros, "zero", role>>,
                        r.ret, r.err, FALSE)
    /\ UNCHANGED <<swap, readers, leg, caller>>

\* CurveNodes.from_discounts(as_of, dates, discounts, day_counter)
CurveNodes_from_discounts ==
    /\ last.op = "none"
    /\ \E as_of \in AsOfs, dates \in SeqsUpTo(Dates, MaxLen),
          discounts \in SeqsUpTo(QuoteValues, MaxLen) :
        LET role == DefaultRole("from_discounts")
            r == construct(curves, "termstructures", as_of, dates, discounts, "Actual365Fixed",
                           "discount", role) IN
        /\ curves' = r.curves
        /\ handles' = HandlesFor(handles, r.curves)
        /\ last' = Call("from_discounts", 0,
                        <<as_of, dates, discounts, "discount", role>>, r.ret, r.err, FALSE)
    /\ UNCHANGED <<swap, readers, leg, caller>>

\* CurveNodes.from_forwards(as_of, dates, forwards, day_counter)
CurveNodes_from_forwards ==
    /\ last.op = "none"
    /\ \E as_of \in AsOfs, dates \in SeqsUpTo(Dates, MaxLen),
          forwards \in SeqsUpTo(QuoteValues, MaxLen) :
        LET role == DefaultRole("from_forwards")
            r == construct(curves, "termstructures", as_of, dates, forwards, "Actual365Fixed",
                           "forward", role) IN
        /\ curves' = r.curves
        /\ handles' = HandlesFor(handles, r.curves)
        /\ last' = Call("from_forwards", 0,
                        <<as_of, dates, forwards, "forward", role>>, r.ret, r.err, FALSE)
    /\ UNCHANGED <<swap, readers, leg, caller>>

\* CurveNodes.from_flat(as_of, maturity, zero, day_counter)
CurveNodes_from_flat ==
    /\ last.op = "none"
    /\ \E as_of \in AsOfs, maturity \in Dates, zero \in QuoteValues :
        LET role == DefaultRole("from_flat")
            r == construct(curves, "termstructures", as_of, <<maturity>>, <<zero>>, "Actual365Fixed",
                           "flat", role) IN
        /\ curves' = r.curves
        /\ handles' = HandlesFor(handles, r.curves)
        /\ last' = Call("from_flat", 0,
                        <<as_of, <<maturity>>, <<zero>>, "flat", role>>, r.ret, r.err, FALSE)
    /\ UNCHANGED <<swap, readers, leg, caller>>

\* self.yts_handle (self.yts_handle() on a structures object)
CurveNodes_yts_handle ==
    /\ \E o \in 1..Len(curves) :
        LET r == yts_handle(curves, handles, o) IN
        /\ curves' = r.curves
        /\ handles' = r.handles
        /\ last' = Call("yts_handle", o, <<>>, r.ret, r.err, r.built)
    /\ UNCHANGED <<swap, readers, leg, caller>>

\* self.to_handle()
CurveNodes_to_handle ==
    /\ \E o \in 1..Len(curves) :
        LET r == to_handle(curves, handles, o) IN
        /\ curves' = r.curves
        /\ handles' = r.handles
        /\ last' = Call("to_handle", o, <<>>, r.ret, r.err, r.built)
    /\ UNCHANGED <<swap, readers, leg, caller>>

\* self.discount_factor(date)
CurveNodes_discount_factor ==
    /\ \E o \in 1..Len(curves), date \in Dates :
        LET b == build_yts(curves[o])
            r == discount_factor(curves, handles, o, date)
        IN
        /\ b.err = OK => Queryable(b.yts, date)
        /\ curves' = r.curves
        /\ handles' = r.handles
        /\ last' = Call("discount_factor", o, <<date>>, r.ret, r.err, r.built)
    /\ UNCHANGED <<swap, readers, leg, caller>>

\* self.bump(bp)
CurveNodes_bump ==
    /\ Len(curves) < MaxCurves
    /\ \E o \in 1..Len(curves), bp \in Bumps :
        LET r == bump(curves, o, bp) IN
        /\ curves' = r.curves
        /\ handles' = HandlesFor(handles, r.curves)
        /\ last' = Call("bump", o, <<bp>>, r.ret, r.err, FALSE)
    /\ UNCHANGED <<swap, readers, leg, caller>>

\* FXForward(valuation_date=, maturity=, notional=, forward_rate=, spot=)
FXForward(valuation_date, maturity) ==
    [valuation_date |-> valuation_date, maturity |-> maturity, notional |-> 1,
     forward_rate |-> 1, spot |-> 1]

\* FXForward.is_expired()
FXForward_is_expired(self) == self.valuation_date >= self.maturity

\* the spot argument left out
NoSpot == [given |-> FALSE, rate |-> 0]

\* FXForward.mtm(domestic_nodes, foreign_nodes, spot=), the nodes being
\* objects d and f: [err, curves, handles, ret, built].  A discount factor
\* is the float 0.0 from z = DfZero on.
FXForward_mtm(self, cs, hs, d, f, spot) ==
    LET s == IF spot.given THEN spot.rate ELSE self.spot
        value(df_dom, df_for) ==
            IF df_for.err # OK
            THEN Raised(df_for.err, df_for.curves, df_for.handles,
                        df_dom.built \/ df_for.built)
            ELSE IF df_dom.ret >= DfZero
            THEN Raised("ZeroDivisionError: float division by zero",
                        df_for.curves, df_for.handles, df_dom.built \/ df_for.built)
            ELSE [err |-> OK, curves |-> df_for.curves, handles |-> df_for.handles,
                  built |-> df_dom.built \/ df_for.built,
                  ret |-> [fn |-> "notional * (s * df_for / df_dom - forward_rate) * df_dom",
                           args |-> <<self.notional, s, df_for.ret, df_dom.ret,
                                      self.forward_rate>>]]
        domestic(df_dom) ==
            IF df_dom.err # OK
            THEN Raised(df_dom.err, df_dom.curves, df_dom.handles, df_dom.built)
            ELSE value(df_dom,
                       discount_factor(df_dom.curves, df_dom.handles, f, self.maturity))
    IN
    IF FXForward_is_expired(self)
    THEN [err |-> OK, curves |-> cs, handles |-> hs, ret |-> Float0, built |-> FALSE]
    ELSE domestic(discount_factor(cs, hs, d, self.maturity))

\* Instrument.price(*args, **kwargs): delegates to mtm
FXForward_price(self, cs, hs, d, f, spot) == FXForward_mtm(self, cs, hs, d, f, spot)

\* FXForward.delta(foreign_nodes)
FXForward_delta(self, cs, hs, f) ==
    LET value(df_for) ==
            IF df_for.err # OK
            THEN Raised(df_for.err, df_for.curves, df_for.handles, df_for.built)
            ELSE [df_for EXCEPT !.ret = [fn |-> "notional * df_for",
                                         args |-> <<self.notional, df_for.ret>>]]
    IN
    IF FXForward_is_expired(self)
    THEN [err |-> OK, curves |-> cs, handles |-> hs, ret |-> Float0, built |-> FALSE]
    ELSE value(discount_factor(cs, hs, f, self.maturity))

\* the date maturity is one at which discount is modelled on curve o
QueryableOn(o, maturity) ==
    LET b == build_yts(curves[o]) IN b.err = OK => Queryable(b.yts, maturity)

\* the state a call r on an instrument leaves
Valued(op, args, r) ==
    /\ curves' = r.curves
    /\ handles' = r.handles
    /\ last' = Call(op, 0, args, r.ret, r.err, r.built)
    /\ UNCHANGED <<swap, readers, leg, caller>>

\* FXForward(...).mtm(domestic_nodes, foreign_nodes)
FXForward_mtm_call ==
    \E d \in 1..Len(curves), f \in 1..Len(curves), maturity \in Dates :
        /\ QueryableOn(d, maturity) /\ QueryableOn(f, maturity)
        /\ Valued("FXForward.mtm", <<FXForward(0, maturity), d, f, NoSpot>>,
                  FXForward_mtm(FXForward(0, maturity), curves, handles, d, f, NoSpot))

\* FXForward(...).price(domestic_nodes, foreign_nodes, spot=spot)
FXForward_price_call ==
    \E d \in 1..Len(curves), f \in 1..Len(curves), maturity \in Dates,
       spot \in {[given |-> TRUE, rate |-> 2]} :
        /\ QueryableOn(d, maturity) /\ QueryableOn(f, maturity)
        /\ Valued("FXForward.price", <<FXForward(0, maturity), d, f, spot>>,
                  FXForward_price(FXForward(0, maturity), curves, handles, d, f, spot))

\* FXForward(...).delta(foreign_nodes)
FXForward_delta_call ==
    \E f \in 1..Len(curves), maturity \in Dates :
        /\ QueryableOn(f, maturity)
        /\ Valued("FXForward.delta", <<FXForward(0, maturity), f>>,
                  FXForward_delta(FXForward(0, maturity), curves, handles, f))

Next ==
    \/ CurveNodes_init
    \/ CurveNodes_from_zeros
    \/ CurveNodes_from_discounts
    \/ CurveNodes_from_forwards
    \/ CurveNodes_from_flat
    \/ CurveNodes_yts_handle
    \/ CurveNodes_to_handle
    \/ CurveNodes_discount_factor
    \/ CurveNodes_bump
    \/ FXForward_mtm_call
    \/ FXForward_price_call
    \/ FXForward_delta_call

Spec == Init /\ [][Next]_vars

----------------------------------------------------------------------------
(* Swap legs and InterestRateSwap: construction and the leg accessors *)

LegClass ==
    {"SwapLeg", "FixedLeg", "FloatingLeg",
     "AmortizedSwapLeg", "AmortizedFixedLeg", "AmortizedFloatingLeg"}

\* the classes a leg class derives from, itself included
Mro(cls) ==
    CASE cls = "SwapLeg" -> {"SwapLeg"}
      [] cls = "FixedLeg" -> {"FixedLeg", "SwapLeg"}
      [] cls = "FloatingLeg" -> {"FloatingLeg", "SwapLeg"}
      [] cls = "AmortizedSwapLeg" -> {"AmortizedSwapLeg", "SwapLeg"}
      [] cls = "AmortizedFixedLeg" ->
            {"AmortizedFixedLeg", "FixedLeg", "AmortizedSwapLeg", "SwapLeg"}
      [] cls = "AmortizedFloatingLeg" ->
            {"AmortizedFloatingLeg", "FloatingLeg", "AmortizedSwapLeg", "SwapLeg"}
      [] OTHER -> {"object"}

issubclass(cls, base) == base \in Mro(cls)

isinstance(obj, base) == issubclass(obj.cls, base)

\* an index object: its name and the curve it forecasts from; None is no index
Index(name, link) == [name |-> name, link |-> link, fixings |-> <<>>]

None == Index("None", <<>>)

\* idx is None
IsNone(idx) == idx.name = "None"

Currency == {"EUR", "SEK"}

\* tenor: the period between two payment dates
Tenors == {1, 2}

\* a leg object; index is the field of a FloatingLeg, None where it is unset
\* and for the classes that have no such field (getattr(fl, "index", None))
SwapLeg(cls, valuation_date, issue_date, maturity, tenor, currency, index) ==
    [cls |-> cls, valuation_date |-> valuation_date, issue_date |-> issue_date,
     maturity |-> maturity, tenor |-> tenor, currency |-> currency,
     index |-> index]

\* the leg objects of the classes in classes, with a tenor of tenors,
\* floating legs bound to an index of indices or to none
Legs(classes, indices, tenors) ==
    {l \in [cls : classes, valuation_date : Dates, issue_date : Dates,
             maturity : Dates, tenor : tenors, currency : Currency,
             index : indices \cup {None}] :
        ~IsNone(l.index) => issubclass(l.cls, "FloatingLeg")}

\* an argument that is no leg at all
NotALeg == SwapLeg("object", 0, 0, 0, 1, "EUR", None)

\* __post_init__ without the comparison of the legs' currencies
InterestRateSwap_post_init_no_currency(paying_leg, receiving_leg) ==
    LET t1 == paying_leg.cls
        t2 == receiving_leg.cls
    IN
    IF ~issubclass(t1, "SwapLeg") \/ ~issubclass(t2, "SwapLeg")
    THEN "ValueError: paying_leg and receiving_leg must be a subclass of SwapLeg"
    ELSE IF issubclass(t1, "FixedLeg") /\ issubclass(t2, "FixedLeg")
    THEN "ValueError: paying_leg and receiving_leg cannot be of the same type FixedLeg"
    ELSE IF issubclass(t1, "FloatingLeg") /\ issubclass(t2, "FloatingLeg")
    THEN "ValueError: paying_leg and receiving_leg cannot be of the same type FloatingLeg"
    ELSE IF paying_leg.valuation_date # receiving_leg.valuation_date
    THEN "ValueError: paying_leg and receiving_leg must have the same valuation_date"
    ELSE IF paying_leg.issue_date # receiving_leg.issue_date
    THEN "ValueError: paying_leg and receiving_leg must have the same issue_date"
    ELSE IF paying_leg.maturity # receiving_leg.maturity
    THEN "ValueError: paying_leg and receiving_leg must have the same maturity"
    ELSE OK

\* InterestRateSwap.__post_init__: OK, or the error it raises
InterestRateSwap_post_init(paying_leg, receiving_leg) ==
    LET t1 == paying_leg.cls
        t2 == receiving_leg.cls
    IN
    IF ~issubclass(t1, "SwapLeg") \/ ~issubclass(t2, "SwapLeg")
    THEN "ValueError: paying_leg and receiving_leg must be a subclass of SwapLeg"
    ELSE IF issubclass(t1, "FixedLeg") /\ issubclass(t2, "FixedLeg")
    THEN "ValueError: paying_leg and receiving_leg cannot be of the same type FixedLeg"
    ELSE IF issubclass(t1, "FloatingLeg") /\ issubclass(t2, "FloatingLeg")
    THEN "ValueError: paying_leg and receiving_leg cannot be of the same type FloatingLeg"
    ELSE IF paying_leg.valuation_date # receiving_leg.valuation_date
    THEN "ValueError: paying_leg and receiving_leg must have the same valuation_date"
    ELSE IF paying_leg.issue_date # receiving_leg.issue_date
    THEN "ValueError: paying_leg and receiving_leg must have the same issue_date"
    ELSE IF paying_leg.maturity # receiving_leg.maturity
    THEN "ValueError: paying_leg and receiving_leg must have the same maturity"
    ELSE IF paying_leg.currency # receiving_leg.currency
    THEN "ValueError: paying_leg and receiving_leg must have the same currency"
    ELSE OK

\* the swap object
InterestRateSwap(paying_leg, receiving_leg) ==
    [paying_leg |-> paying_leg, receiving_leg |-> receiving_leg]

\* InterestRateSwap._leg(cls): [err, ret], ret naming the field that holds the
\* leg returned
_leg(self, cls) ==
    IF isinstance(self.receiving_leg, cls)
    THEN [err |-> OK, ret |-> "receiving_leg"]
    ELSE IF isinstance(self.paying_leg, cls)
    THEN [err |-> OK, ret |-> "paying_leg"]
    ELSE [err |-> "RuntimeError: swap is missing " \o cls, ret |-> "None"]

fixed_leg(self) == _leg(self, "FixedLeg")

floating_leg(self) == _leg(self, "FloatingLeg")

\* InterestRateSwap(paying_leg=, receiving_leg=)
InterestRateSwap_init ==
    /\ last.op = "none"
    /\ \E paying_leg \in Legs(LegClass, {}, {1}) \cup {NotALeg},
          receiving_leg \in Legs(LegClass, {}, {1}) \cup {NotALeg} :
        LET e == InterestRateSwap_post_init(paying_leg, receiving_leg) IN
        /\ swap' = IF e = OK THEN InterestRateSwap(paying_leg, receiving_leg)
                   ELSE NoSwap
        /\ last' = Call("InterestRateSwap", 0, <<paying_leg, receiving_leg>>,
                        "None", e, FALSE)
    /\ UNCHANGED <<curves, handles, readers, leg, caller>>

\* swap.fixed_leg
InterestRateSwap_fixed_leg ==
    /\ swap # NoSwap
    /\ LET r == fixed_leg(swap) IN
        last' = Call("fixed_leg", 0, <<>>, r.ret, r.err, FALSE)
    /\ UNCHANGED <<curves, handles, swap, readers, leg, caller>>

\* swap.floating_leg
InterestRateSwap_floating_leg ==
    /\ swap # NoSwap
    /\ LET r == floating_leg(swap) IN
        last' = Call("floating_leg", 0, <<>>, r.ret, r.err, FALSE)
    /\ UNCHANGED <<curves, handles, swap, readers, leg, caller>>

NextSwap ==
    \/ InterestRateSwap_init
    \/ InterestRateSwap_fixed_leg
    \/ InterestRateSwap_floating_leg

SpecSwap == Init /\ [][NextSwap]_vars

----------------------------------------------------------------------------
(* The payment schedule of a leg and the part of it that is still to come.  *)
(* Dates and periods are integers (a period is a whole number of date       *)
(* units) and every date is a business day, so that the calendar adjusts    *)
(* nothing.                                                                 *)

\* forward_marching_schedule(start, end, period, calendar): [err, dates].
\* Schedule marches forward from start by period while it does not pass end
\* and closes with end.
forward_marching_schedule(start, end, period) ==
    IF ~(start < end)
    THEN [err |-> "RuntimeError: effective date later than or equal to termination date",
          dates |-> <<>>]
    ELSE LET n == (end - start) \div period
             marched == [i \in 1..(n + 1) |-> start + (i - 1) * period]
         IN
         [err |-> OK,
          dates |-> IF start + n * period = end THEN marched
                    ELSE Append(marched, end)]

\* SwapLeg.schedule: [err, dates]
schedule(self) ==
    forward_marching_schedule(self.issue_date, self.maturity, self.tenor)

\* update_dates_in_schedule(schedule, new_dates): the schedule of new_dates
update_dates_in_schedule(sched, new_dates) ==
    [err |-> OK, dates |-> new_dates]

\* future_schedule keeping the dates on the cutoff too
future_schedule_inclusive(self) ==
    LET corrected_start == self.valuation_date - self.tenor
        after(date) == date >= corrected_start
    IN
    IF schedule(self).err # OK THEN schedule(self)
    ELSE update_dates_in_schedule(schedule(self),
                                  SelectSeq(schedule(self).dates, after))

\* future_schedule cutting at valuation_date itself
future_schedule_from_valuation_date(self) ==
    LET after(date) == date > self.valuation_date IN
    IF schedule(self).err # OK THEN schedule(self)
    ELSE update_dates_in_schedule(schedule(self),
                                  SelectSeq(schedule(self).dates, after))

\* SwapLeg.future_schedule: [err, dates]
future_schedule(self) ==
    LET corrected_start == self.valuation_date - self.tenor
        after(date) == date > corrected_start
    IN
    IF schedule(self).err # OK THEN schedule(self)
    ELSE update_dates_in_schedule(schedule(self),
                                  SelectSeq(schedule(self).dates, after))

----------------------------------------------------------------------------
(* InterestRateSwap: valuation and risk *)

\* what the leg builders FixedRateLeg and IborLeg do with a schedule of fewer
\* than two dates: they build the leg or they raise
QLOutcome == {"ok", "RuntimeError"}

\* swap.is_expired with > for >=
is_expired_strict(self) ==
    self.receiving_leg.valuation_date > self.receiving_leg.maturity

\* InterestRateSwap.is_expired (valuation_date and maturity are those of the
\* receiving leg)
is_expired(self) ==
    self.receiving_leg.valuation_date >= self.receiving_leg.maturity

\* the leg held in the field named side
LegOf(self, side) ==
    IF side = "paying_leg" THEN self.paying_leg ELSE self.receiving_leg

\* _resolve_index preferring the index bound to the floating leg
_resolve_index_bound_first(self, forecast_index) ==
    LET fl == floating_leg(self) IN
    IF fl.err = OK /\ ~IsNone(LegOf(self, fl.ret).index)
    THEN [err |-> OK, ret |-> LegOf(self, fl.ret).index]
    ELSE IF ~IsNone(forecast_index) THEN [err |-> OK, ret |-> forecast_index]
    ELSE IF fl.err # OK THEN [err |-> fl.err, ret |-> None]
    ELSE [err |-> "ValueError: Missing forecasting Index", ret |-> None]

\* InterestRateSwap._resolve_index: [err, ret]
_resolve_index(self, forecast_index) ==
    IF ~IsNone(forecast_index)
    THEN [err |-> OK, ret |-> forecast_index]
    ELSE LET fl == floating_leg(self) IN
         IF fl.err # OK THEN [err |-> fl.err, ret |-> None]
         ELSE LET idx == LegOf(self, fl.ret).index IN
              IF IsNone(idx)
              THEN [err |-> "ValueError: Missing forecasting Index", ret |-> None]
              ELSE [err |-> OK, ret |-> idx]

\* the error of building the cash flows of leg l over l.future_schedule:
\* Schedule requires issue_date < maturity, and q tells what the leg builder
\* does when fewer than two dates of the schedule are still to come
ScheduleError(l, q) ==
    IF future_schedule(l).err # OK THEN future_schedule(l).err
    ELSE IF Len(future_schedule(l).dates) < 2 /\ q # "ok"
    THEN "RuntimeError: degenerate schedule"
    ELSE OK

\* FixedLeg.cashflows(): [err, ret]
FixedLeg_cashflows(l, q) ==
    IF ScheduleError(l, q) # OK
    THEN [err |-> ScheduleError(l, q), ret |-> <<>>]
    ELSE [err |-> OK, ret |-> [ctor |-> "FixedRateLeg", leg |-> l, index |-> None]]

\* FloatingLeg.cashflows(forecast_index): [err, ret]
FloatingLeg_cashflows(l, forecast_index, q) ==
    LET idx == IF ~IsNone(forecast_index) THEN forecast_index ELSE l.index IN
    IF IsNone(idx)
    THEN [err |-> "ValueError: FloatingLeg needs an Index", ret |-> <<>>]
    ELSE IF ScheduleError(l, q) # OK
    THEN [err |-> ScheduleError(l, q), ret |-> <<>>]
    ELSE [err |-> OK, ret |-> [ctor |-> "IborLeg", leg |-> l, index |-> idx]]

\* the branch `if isinstance(leg, FixedLeg): leg.cashflows() else:
\* leg.cashflows(forecast_index=idx)` of _swap_ql
leg_cashflows(l, idx, q) ==
    IF isinstance(l, "FixedLeg") THEN FixedLeg_cashflows(l, q)
    ELSE IF isinstance(l, "FloatingLeg") THEN FloatingLeg_cashflows(l, idx, q)
    ELSE [err |-> "AttributeError: " \o l.cls \o " object has no attribute cashflows",
          ret |-> <<>>]

\* InterestRateSwap._swap_ql(forecast_index, discount_nodes), discount_nodes
\* being object o: [err, curves, handles, ret, built]; built tells whether a
\* pricing object (cash flows, swap, curve, engine) was constructed
_swap_ql(self, forecast_index, cs, hs, o, q) ==
    LET fail(e, b) == [err |-> e, curves |-> cs, handles |-> hs, ret |-> <<>>,
                       built |-> b]
        swap_(paying_leg, receiving_leg, h) ==
            IF h.err # OK
            THEN [fail(h.err, TRUE) EXCEPT !.curves = h.curves, !.handles = h.handles]
            ELSE [err |-> OK, curves |-> h.curves, handles |-> h.handles,
                  built |-> TRUE,
                  ret |-> [legs |-> <<paying_leg.ret, receiving_leg.ret>>,
                           engine |-> Deref(h.handles, h.ret).yts]]
        receiving(paying_leg, receiving_leg) ==
            IF receiving_leg.err # OK THEN fail(receiving_leg.err, TRUE)
            ELSE swap_(paying_leg, receiving_leg, yts_handle_called(cs, hs, o))
        paying(idx, paying_leg) ==
            IF paying_leg.err # OK THEN fail(paying_leg.err, FALSE)
            ELSE receiving(paying_leg, leg_cashflows(self.receiving_leg, idx.ret, q))
        resolved(idx) ==
            IF idx.err # OK THEN fail(idx.err, FALSE)
            ELSE paying(idx, leg_cashflows(self.paying_leg, idx.ret, q))
    IN resolved(_resolve_index(self, forecast_index))

\* swap.NPV()
NPV(swap_ql) == [fn |-> "NPV", args |-> <<swap_ql>>]

\* s.NPV(), s being what _swap_ql returned or raised
swap_NPV(s) ==
    IF s.err # OK THEN Raised(s.err, s.curves, s.handles, s.built)
    ELSE [s EXCEPT !.ret = NPV(s.ret)]

\* swap.legBPS(leg_index)
legBPS(swap_ql, leg_index) == [fn |-> "legBPS", args |-> <<swap_ql, leg_index>>]

\* s.legBPS(leg_index), s being what _swap_ql returned or raised
swap_legBPS(s, leg_index) ==
    IF s.err # OK THEN Raised(s.err, s.curves, s.handles, s.built)
    ELSE [s EXCEPT !.ret = legBPS(s.ret, leg_index)]

\* (bumped - base) / bump_bp
FiniteDifference(bumped, base, bump_bp) ==
    [fn |-> "(bumped - base) / bump_bp", args |-> <<bumped, base, bump_bp>>]

\* the sign of x
Sign(x) == IF x > 0 THEN 1 ELSE IF x < 0 THEN -1 ELSE 0

\* the sign of the float that (bumped - base) / bump_bp evaluates to when the
\* engine returns npv_bumped and npv_base for the two pricings
FiniteDifferenceSign(fd, npv_bumped, npv_base) ==
    Sign(npv_bumped - npv_base) * Sign(fd.args[3])

\* NPVs an engine may return
NPVValues == {-1, 0, 1}

\* mark_to_market without the is_expired shortcut
mark_to_market_unguarded(self, cs, hs, o, forecast_index, q) ==
    swap_NPV(_swap_ql(self, forecast_index, cs, hs, o, q))

\* InterestRateSwap.mark_to_market(discount_nodes, forecast_index):
\* [err, curves, handles, ret, built]
mark_to_market(self, cs, hs, o, forecast_index, q) ==
    IF is_expired(self)
    THEN [err |-> OK, curves |-> cs, handles |-> hs, ret |-> Float0, built |-> FALSE]
    ELSE swap_NPV(_swap_ql(self, forecast_index, cs, hs, o, q))

\* InterestRateSwap.mtm(forecast_index, discount_nodes)
mtm(self, cs, hs, forecast_index, o, q) ==
    mark_to_market(self, cs, hs, o, forecast_index, q)

\* InterestRateSwap.getCashFlows(forecast_index, discount_nodes): the swap is
\* built whether expired or not, and the table of its payments is discounted
\* on ZeroCurve(discount_nodes.dates, discount_nodes.quotes,
\* discount_nodes.day_counter); a structures object has no day_counter
getCashFlows(self, forecast_index, cs, hs, o, q) ==
    LET table(s) ==
            IF s.err # OK THEN Raised(s.err, s.curves, s.handles, s.built)
            ELSE IF cs[o].module = "structures"
            THEN Raised("AttributeError: CurveNodes object has no attribute day_counter",
                        s.curves, s.handles, TRUE)
            ELSE [s EXCEPT !.ret =
                     [fn |-> "DataFrame",
                      args |-> <<s.ret, ZeroCurve(cs[o].dates, cs[o].quotes,
                                                  cs[o].day_counter).yts>>]]
    IN table(_swap_ql(self, forecast_index, cs, hs, o, q))

\* InterestRateSwap.debug(swap, forecast_index, discount_nodes): the same
\* table, printed; returns None
debug(swap_, forecast_index, cs, hs, o, q) ==
    LET shown(t) == IF t.err # OK THEN t ELSE [t EXCEPT !.ret = NoValue]
    IN shown(getCashFlows(swap_, forecast_index, cs, hs, o, q))

\* leg_bps with the two positions exchanged
leg_bps_swapped(self, accessor, cs, hs, o, forecast_index, q) ==
    IF accessor.err # OK THEN Raised(accessor.err, cs, hs, FALSE)
    ELSE swap_legBPS(_swap_ql(self, forecast_index, cs, hs, o, q),
                     IF accessor.ret = "paying_leg" THEN 1 ELSE 0)

\* the per-leg BPS of the leg that accessor (fixed_leg or floating_leg) returns
leg_bps(self, accessor, cs, hs, o, forecast_index, q) ==
    IF accessor.err # OK THEN Raised(accessor.err, cs, hs, FALSE)
    ELSE swap_legBPS(_swap_ql(self, forecast_index, cs, hs, o, q),
                     IF accessor.ret = "paying_leg" THEN 0 ELSE 1)

\* InterestRateSwap.pv01(discount_nodes, forecast_index)
pv01(self, cs, hs, o, forecast_index, q) ==
    leg_bps(self, fixed_leg(self), cs, hs, o, forecast_index, q)

\* InterestRateSwap.dv01(discount_nodes, forecast_index)
dv01(self, cs, hs, o, forecast_index, q) ==
    leg_bps(self, floating_leg(self), cs, hs, o, forecast_index, q)

\* every object of cs stays with the caller, those made inside the call too
Kept_with_transients(cs, n) ==
    cs

\* the objects of cs that the caller holds: a curve made inside a call is
\* dropped when the call returns
Kept(cs, n) ==
    SubSeq(cs, 1, n)

\* ir01_discount taking the difference the other way round: base - bumped
ir01_discount_reversed(self, cs, hs, o, forecast_index, bump_bp, q) ==
    LET n == Len(cs)
        difference(base, bumped) ==
            IF bumped.err # OK
            THEN Raised(bumped.err, Kept(bumped.curves, n), Kept(bumped.handles, n),
                        TRUE)
            ELSE IF bump_bp = 0
            THEN Raised("ZeroDivisionError: float division by zero",
                        Kept(bumped.curves, n), Kept(bumped.handles, n), TRUE)
            ELSE [err |-> OK, built |-> TRUE,
                  curves |-> Kept(bumped.curves, n),
                  handles |-> Kept(bumped.handles, n),
                  ret |-> FiniteDifference(NPV(base.ret), NPV(bumped.ret), bump_bp)]
        bumped_(base, bumped_nodes) ==
            IF bumped_nodes.err # OK
            THEN Raised(bumped_nodes.err, base.curves, base.handles, TRUE)
            ELSE difference(base,
                            _swap_ql(self, forecast_index, bumped_nodes.curves,
                                     HandlesFor(base.handles, bumped_nodes.curves),
                                     bumped_nodes.ret, q))
        base_(base) ==
            IF base.err # OK
            THEN Raised(base.err, base.curves, base.handles, base.built)
            ELSE bumped_(base, bump(base.curves, o, bump_bp))
    IN base_(_swap_ql(self, forecast_index, cs, hs, o, q))

\* InterestRateSwap.ir01_discount(discount_nodes, forecast_index, bump_bp)
ir01_discount(self, cs, hs, o, forecast_index, bump_bp, q) ==
    LET n == Len(cs)
        difference(base, bumped) ==
            IF bumped.err # OK
            THEN Raised(bumped.err, Kept(bumped.curves, n), Kept(bumped.handles, n),
                        TRUE)
            ELSE IF bump_bp = 0
            THEN Raised("ZeroDivisionError: float division by zero",
                        Kept(bumped.curves, n), Kept(bumped.handles, n), TRUE)
            ELSE [err |-> OK, built |-> TRUE,
                  curves |-> Kept(bumped.curves, n),
                  handles |-> Kept(bumped.handles, n),
                  ret |-> FiniteDifference(NPV(bumped.ret), NPV(base.ret), bump_bp)]
        bumped_(base, bumped_nodes) ==
            IF bumped_nodes.err # OK
            THEN Raised(bumped_nodes.err, base.curves, base.handles, TRUE)
            ELSE difference(base,
                            _swap_ql(self, forecast_index, bumped_nodes.curves,
                                     HandlesFor(base.handles, bumped_nodes.curves),
                                     bumped_nodes.ret, q))
        base_(base) ==
            IF base.err # OK
            THEN Raised(base.err, base.curves, base.handles, base.built)
            ELSE bumped_(base, bump(base.curves, o, bump_bp))
    IN base_(_swap_ql(self, forecast_index, cs, hs, o, q))

\* idx0.clone(handle): the same index forecasting from the curve of handle
clone(idx, yts) == [idx EXCEPT !.link = yts]

\* ir01_forecast pricing the bumped case on the base index, not on its clone
ir01_forecast_unlinked(self, cs, hs, f, o, base_index, bump_bp, q) ==
    LET n == Len(cs)
        difference(base, bumped) ==
            IF bumped.err # OK
            THEN Raised(bumped.err, Kept(bumped.curves, n), Kept(bumped.handles, n),
                        TRUE)
            ELSE IF bump_bp = 0
            THEN Raised("ZeroDivisionError: float division by zero",
                        Kept(bumped.curves, n), Kept(bumped.handles, n), TRUE)
            ELSE [err |-> OK, built |-> TRUE,
                  curves |-> Kept(bumped.curves, n),
                  handles |-> Kept(bumped.handles, n),
                  ret |-> FiniteDifference(NPV(bumped.ret), NPV(base.ret), bump_bp)]
        base_(idx_bumped, base) ==
            IF base.err # OK
            THEN Raised(base.err, Kept(base.curves, n), Kept(base.handles, n), TRUE)
            ELSE difference(base,
                            _swap_ql(self, idx_bumped, base.curves, base.handles, o, q))
        cloned(idx0, hb) ==
            IF hb.err # OK THEN Raised(hb.err, cs, hs, hb.built)
            ELSE base_(idx0.ret,
                       _swap_ql(self, idx0.ret, hb.curves, hb.handles, o, q))
        bumped_(idx0, bumped_nodes) ==
            IF bumped_nodes.err # OK THEN Raised(bumped_nodes.err, cs, hs, FALSE)
            ELSE cloned(idx0,
                        yts_handle_called(bumped_nodes.curves,
                                          HandlesFor(hs, bumped_nodes.curves),
                                          bumped_nodes.ret))
        resolved(idx0) ==
            IF idx0.err # OK THEN Raised(idx0.err, cs, hs, FALSE)
            ELSE bumped_(idx0, bump(cs, f, bump_bp))
    IN resolved(_resolve_index(self, base_index))

\* InterestRateSwap.ir01_forecast(forecast_nodes, discount_nodes, base_index,
\* bump_bp), forecast_nodes being object f and discount_nodes object o
ir01_forecast(self, cs, hs, f, o, base_index, bump_bp, q) ==
    LET n == Len(cs)
        difference(base, bumped) ==
            IF bumped.err # OK
            THEN Raised(bumped.err, Kept(bumped.curves, n), Kept(bumped.handles, n),
                        TRUE)
            ELSE IF bump_bp = 0
            THEN Raised("ZeroDivisionError: float division by zero",
                        Kept(bumped.curves, n), Kept(bumped.handles, n), TRUE)
            ELSE [err |-> OK, built |-> TRUE,
                  curves |-> Kept(bumped.curves, n),
                  handles |-> Kept(bumped.handles, n),
                  ret |-> FiniteDifference(NPV(bumped.ret), NPV(base.ret), bump_bp)]
        base_(idx_bumped, base) ==
            IF base.err # OK
            THEN Raised(base.err, Kept(base.curves, n), Kept(base.handles, n), TRUE)
            ELSE difference(base,
                            _swap_ql(self, idx_bumped, base.curves, base.handles, o, q))
        cloned(idx0, hb) ==
            IF hb.err # OK THEN Raised(hb.err, cs, hs, hb.built)
            ELSE base_(clone(idx0.ret, Deref(hb.handles, hb.ret).yts),
                       _swap_ql(self, idx0.ret, hb.curves, hb.handles, o, q))
        bumped_(idx0, bumped_nodes) ==
            IF bumped_nodes.err # OK THEN Raised(bumped_nodes.err, cs, hs, FALSE)
            ELSE cloned(idx0,
                        yts_handle_called(bumped_nodes.curves,
                                          HandlesFor(hs, bumped_nodes.curves),
                                          bumped_nodes.ret))
        resolved(idx0) ==
            IF idx0.err # OK THEN Raised(idx0.err, cs, hs, FALSE)
            ELSE bumped_(idx0, bump(cs, f, bump_bp))
    IN resolved(_resolve_index(self, base_index))

----------------------------------------------------------------------------
(* Swaption: expiry *)

\* the expiries field: None, or a sequence of dates
NoExpiries == [given |-> FALSE, dates |-> <<>>]

SomeExpiries(dates) == [given |-> TRUE, dates |-> dates]

\* the strike field: None, or a rate in basis points
NoStrike == [given |-> FALSE, rate |-> 0]

SomeStrike(rate) == [given |-> TRUE, rate |-> rate]

\* Swaption(swap=, expiries=, is_long=), the other fields at their defaults
Swaption(swap_, expiries, is_long) ==
    [swap |-> swap_, expiries |-> expiries, strike |-> NoStrike, volatility |-> 100,
     vol_type |-> "black", settlement |-> "physical", is_long |-> is_long]

\* Swaption._expiries
_expiries(self) ==
    IF self.expiries.given /\ Len(self.expiries.dates) > 0
    THEN self.expiries.dates
    ELSE <<self.swap.receiving_leg.issue_date>>

\* Swaption.expiry
expiry(self) == _expiries(self)[1]

\* Swaption.is_expired()
Swaption_is_expired(self) ==
    self.swap.receiving_leg.valuation_date >= expiry(self)

\* Swaption._vanilla_swap_for_pricing: its first statement calls
\* self.swap._vanilla_swap_ql() without the two arguments that method requires
_vanilla_swap_for_pricing(self, forecast_index, cs, hs, o) ==
    Raised("TypeError: _vanilla_swap_ql() missing 2 required positional arguments",
           cs, hs, FALSE)

\* QuantLib EuropeanExercise(date)
EuropeanExercise(date) ==
    [fn |-> "EuropeanExercise", dates |-> <<date>>]

\* BermudanExercise(list(exps)): the constructor call, with the dates in the
\* order _exercise passes them
BermudanExercise(dates) ==
    [fn |-> "BermudanExercise", dates |-> dates]

\* Swaption.is_european
is_european(self) == Len(_expiries(self)) = 1

\* Swaption._exercise
_exercise(self) ==
    LET exps == _expiries(self) IN
    IF Len(exps) = 1 THEN EuropeanExercise(exps[1]) ELSE BermudanExercise(exps)

\* str.lower() of the spellings of vol_type
lower(s) ==
    IF s = "Black" THEN "black" ELSE IF s = "NORMAL" THEN "normal" ELSE s

\* Swaption._engine(discount_nodes): [err, curves, handles, ret, built].  The
\* day counter is read off self.swap.fixed_leg before the handle is asked for,
\* and the engine is a pricing object built whether or not the handle was
\* cached
_engine(self, cs, hs, o) ==
    LET engine(h) ==
            IF h.err # OK THEN Raised(h.err, h.curves, h.handles, h.built)
            ELSE IF lower(self.vol_type) = "black"
            THEN [h EXCEPT !.ret = [fn |-> "BlackSwaptionEngine",
                                    args |-> <<h.ret, self.volatility>>],
                           !.built = TRUE]
            ELSE IF lower(self.vol_type) \in {"normal", "bachelier"}
            THEN [h EXCEPT !.ret = [fn |-> "BachelierSwaptionEngine",
                                    args |-> <<h.ret, self.volatility>>],
                           !.built = TRUE]
            ELSE Raised("ValueError: vol_type must be black or normal",
                        h.curves, h.handles, h.built)
        dc(fl) ==
            IF fl.err # OK THEN Raised(fl.err, cs, hs, FALSE)
            ELSE engine(to_handle(cs, hs, o))
    IN dc(fixed_leg(self.swap))

\* Swaption._swaption
_swaption(self, forecast_index, cs, hs, o) ==
    LET priced(vanilla, e) ==
            IF e.err # OK THEN e
            ELSE [e EXCEPT !.ret = [fn |-> "Swaption",
                                    args |-> <<vanilla.ret, _exercise(self),
                                               self.settlement, e.ret>>]]
        payoff(vanilla) ==
            IF vanilla.err # OK THEN vanilla
            ELSE priced(vanilla, _engine(self, vanilla.curves, vanilla.handles, o))
    IN payoff(_vanilla_swap_for_pricing(self, forecast_index, cs, hs, o))

\* v if self.is_long else -v
Signed(self, v) ==
    IF self.is_long THEN v ELSE [fn |-> "-", args |-> <<v>>]

\* Swaption.mark_to_market(forecast_index, discount_nodes)
Swaption_mark_to_market(self, forecast_index, cs, hs, o) ==
    LET value(s) ==
            IF s.err # OK THEN s
            ELSE [s EXCEPT !.ret = Signed(self, [fn |-> "NPV", args |-> <<s.ret>>])]
    IN
    IF Swaption_is_expired(self)
    THEN [err |-> OK, curves |-> cs, handles |-> hs, ret |-> Float0, built |-> FALSE]
    ELSE value(_swaption(self, forecast_index, cs, hs, o))

\* Swaption.mtm(forecast_index, discount_nodes)
Swaption_mtm(self, forecast_index, cs, hs, o) ==
    Swaption_mark_to_market(self, forecast_index, cs, hs, o)

\* Swaption.vega(forecast_index, discount_nodes)
Swaption_vega(self, forecast_index, cs, hs, o) ==
    LET value(s) ==
            IF s.err # OK THEN s
            ELSE [s EXCEPT !.ret = Signed(self, [fn |-> "vega", args |-> <<s.ret>>])]
    IN
    IF Swaption_is_expired(self)
    THEN [err |-> OK, curves |-> cs, handles |-> hs, ret |-> Float0, built |-> FALSE]
    ELSE value(_swaption(self, forecast_index, cs, hs, o))

\* Swaption.implied_volatility(target_npv, forecast_index, discount_nodes)
Swaption_implied_volatility(self, target_npv, forecast_index, cs, hs, o) ==
    LET implied(s, e) ==
            IF e.err # OK THEN e
            ELSE [e EXCEPT !.ret = [fn |-> "impliedVolatility",
                                    args |-> <<s.ret, e.ret, target_npv>>]]
        value(s) ==
            IF s.err # OK THEN s
            ELSE implied(s, _engine(self, s.curves, s.handles, o))
    IN
    IF Swaption_is_expired(self)
    THEN [err |-> OK, curves |-> cs, handles |-> hs, ret |-> Float0, built |-> FALSE]
    ELSE value(_swaption(self, forecast_index, cs, hs, o))

\* Swaption.atm_strike(forecast_index, discount_nodes)
Swaption_atm_strike(self, forecast_index, cs, hs, o) ==
    LET rate(v) ==
            IF v.err # OK THEN v
            ELSE [v EXCEPT !.ret = [fn |-> "fairRate", args |-> <<v.ret>>]]
    IN rate(_vanilla_swap_for_pricing(self, forecast_index, cs, hs, o))

----------------------------------------------------------------------------
(* Valuation of a constructed swap against two curves: a program holds a     *)
(* swap and two curves, may have asked the curves for their handles, and    *)
(* makes one valuation call.                                                *)

\* Euribor6M() and USDLibor(Period(6, Months)) as the caller builds them,
\* linked to no curve
Euribor6M == Index("Euribor6M", <<>>)

USDLibor == Index("USDLibor", <<>>)

\* the name argument of make_forecast_index
IndexNames == {"euribor6m", "USD-LIBOR", "sofr"}

\* `sub in name.lower()` for the names of the model
In(sub, name) ==
    <<sub, name>> \in {<<"eur", "euribor6m">>, <<"usd", "USD-LIBOR">>,
                       <<"libor", "USD-LIBOR">>}

\* make_forecast_index(name, forecast_nodes), forecast_nodes being object f:
\* [err, curves, handles, ret, built].  The index is linked to the handle of
\* the curve and is given one fixing, read off the curve at forecast_nodes.asof,
\* which a termstructures object does not have
make_forecast_index(name, cs, hs, f) ==
    LET fixed(h, index, yts) ==
            IF cs[f].module = "termstructures"
            THEN Raised("AttributeError: CurveNodes object has no attribute asof",
                        h.curves, h.handles, TRUE)
            ELSE [err |-> OK, curves |-> h.curves, handles |-> h.handles,
                  built |-> TRUE,
                  ret |-> [index EXCEPT !.fixings =
                      <<[date |-> [fn |-> "fixingDate", args |-> <<cs[f].as_of>>],
                         rate |-> [fn |-> "forwardRate",
                                   args |-> <<yts, cs[f].as_of>>]]>>]]
        linked(h, yts) ==
            fixed(h,
                  IF In("eur", name) THEN Index("Euribor6M", yts)
                  ELSE IF In("usd", name) \/ In("libor", name)
                  THEN Index("USDLibor", yts)
                  ELSE Index("Euribor6M", yts),
                  yts)
        handle(h) ==
            IF h.err # OK THEN Raised(h.err, h.curves, h.handles, h.built)
            ELSE linked(h, Deref(h.handles, h.ret).yts)
    IN handle(to_handle(cs, hs, f))

\* the legs priced: the valuation code reads of a leg's class only whether it
\* is a FixedLeg or a FloatingLeg, and never its currency; the tenor is read
\* through the schedule only, which there is none of unless
\* issue_date < maturity
PricingLegs ==
    {l \in Legs({"SwapLeg", "FixedLeg", "FloatingLeg"}, {Euribor6M}, Tenors) :
        /\ l.currency = "EUR"
        /\ ~(l.issue_date < l.maturity) => l.tenor = 1}

\* the swaps the constructor accepts
AcceptedSwaps ==
    {sw \in {InterestRateSwap(p, r) : p \in PricingLegs, r \in PricingLegs} :
        InterestRateSwap_post_init(sw.paying_leg, sw.receiving_leg) = OK}

\* a discount curve of two nodes and a flat forecasting curve, of the class
\* that module defines
PricingCurves(module) ==
    <<CurveNodes(module, 0, <<0, 1>>, <<0, 1>>, "Actual365Fixed", "discount",
                 "discounting"),
      CurveNodes(module, 0, <<1>>, <<1>>, "Actual365Fixed", "flat", "forecasting")>>

\* the index the program holds: the one make_forecast_index returned
HeldIndex ==
    IF last.op = "make_forecast_index" /\ last.err = OK THEN {last.ret} ELSE {}

\* the forecast_index argument: left out, the index the floating leg may be
\* bound to, another one, or the index the program has made
ForecastIndex == {None, Euribor6M, USDLibor} \cup HeldIndex

\* the expiries argument: left out, or a sequence of dates in any order,
\* repeated dates included
ExpiriesArg == {NoExpiries} \cup {SomeExpiries(d) : d \in SeqsUpTo(Dates, MaxLen)}

InitPricing ==
    /\ \E module \in Modules : curves = PricingCurves(module)
    /\ handles = <<<<>>, <<>>>>
    /\ swap \in AcceptedSwaps
    /\ last = Call("none", 0, <<>>, 0, OK, FALSE)
    /\ readers = <<>>
    /\ leg = NoLeg
    /\ caller = NoCaller

\* the curves passed as discount_nodes where the other curve may be passed
\* too (ir01_forecast, the swaption): those built for discounting
DiscountingCurves == {o \in 1..Len(curves) : curves[o].role = "discounting"}

\* the curves passed to make_forecast_index: those built for forecasting
ForecastingCurves == {o \in 1..Len(curves) : curves[o].role = "forecasting"}

\* what the leg builders may do when the legs of sw are built: q is read
\* only for a leg with fewer than two dates still to come
QLOutcomes(sw) ==
    IF \E l \in {sw.paying_leg, sw.receiving_leg} :
            future_schedule(l).err = OK /\ Len(future_schedule(l).dates) < 2
    THEN QLOutcome ELSE {"ok"}

\* the program has built its curves, and possibly their handles, and has not
\* valued the swap yet
Ready == last.op \in {"none", "yts_handle", "make_forecast_index"}

\* the state a valuation call r leaves
Returns(op, args, r) ==
    /\ Ready
    /\ curves' = r.curves
    /\ handles' = r.handles
    /\ last' = Call(op, 0, args, r.ret, r.err, r.built)
    /\ UNCHANGED <<swap, readers, leg, caller>>

\* swap.mark_to_market(discount_nodes, forecast_index)
InterestRateSwap_mark_to_market ==
    \E o \in 1..Len(curves), forecast_index \in ForecastIndex, q \in QLOutcomes(swap) :
        Returns("mark_to_market", <<o, forecast_index>>,
                mark_to_market(swap, curves, handles, o, forecast_index, q))

\* make_forecast_index(name, forecast_nodes), the first thing the program
\* does with its curves
Pricing_make_forecast_index ==
    /\ last.op = "none"
    /\ \E name \in IndexNames, f \in ForecastingCurves :
        Returns("make_forecast_index", <<name, f>>,
                make_forecast_index(name, curves, handles, f))

\* swap.getCashFlows(forecast_index, discount_nodes)
InterestRateSwap_getCashFlows ==
    \E o \in 1..Len(curves), forecast_index \in ForecastIndex, q \in QLOutcomes(swap) :
        Returns("getCashFlows", <<forecast_index, o>>,
                getCashFlows(swap, forecast_index, curves, handles, o, q))

\* InterestRateSwap.debug(swap, forecast_index, discount_nodes)
InterestRateSwap_debug ==
    \E o \in 1..Len(curves), forecast_index \in ForecastIndex, q \in QLOutcomes(swap) :
        Returns("debug", <<forecast_index, o>>,
                debug(swap, forecast_index, curves, handles, o, q))

\* swap.mtm(forecast_index, discount_nodes)
InterestRateSwap_mtm ==
    \E o \in 1..Len(curves), forecast_index \in ForecastIndex, q \in QLOutcomes(swap) :
        Returns("mtm", <<forecast_index, o>>,
                mtm(swap, curves, handles, forecast_index, o, q))

\* swap.pv01(discount_nodes, forecast_index)
InterestRateSwap_pv01 ==
    \E o \in 1..Len(curves), forecast_index \in ForecastIndex, q \in QLOutcomes(swap) :
        Returns("pv01", <<o, forecast_index>>,
                pv01(swap, curves, handles, o, forecast_index, q))

\* swap.dv01(discount_nodes, forecast_index)
InterestRateSwap_dv01 ==
    \E o \in 1..Len(curves), forecast_index \in ForecastIndex, q \in QLOutcomes(swap) :
        Returns("dv01", <<o, forecast_index>>,
                dv01(swap, curves, handles, o, forecast_index, q))

\* swap.ir01_discount(discount_nodes, forecast_index, bump_bp)
InterestRateSwap_ir01_discount ==
    \E o \in 1..Len(curves), forecast_index \in ForecastIndex,
       bump_bp \in Bumps \cup {0}, q \in QLOutcomes(swap) :
        Returns("ir01_discount", <<o, forecast_index, bump_bp>>,
                ir01_discount(swap, curves, handles, o, forecast_index, bump_bp, q))

\* swap.ir01_forecast(forecast_nodes, discount_nodes, base_index, bump_bp)
InterestRateSwap_ir01_forecast ==
    \E f \in 1..Len(curves), o \in DiscountingCurves, base_index \in ForecastIndex,
       bump_bp \in Bumps \cup {0}, q \in QLOutcomes(swap) :
        Returns("ir01_forecast", <<f, o, base_index, bump_bp>>,
                ir01_forecast(swap, curves, handles, f, o, base_index, bump_bp, q))

\* the expiries argument of a European swaption: left out, or one date
SingleExpiry == {NoExpiries} \cup {SomeExpiries(<<d>>) : d \in Dates}

\* Swaption(swap=swap, expiries=, is_long=).mark_to_market(forecast_index,
\* discount_nodes)
Swaption_mark_to_market_call ==
    \E expiries \in ExpiriesArg, is_long \in BOOLEAN,
       o \in DiscountingCurves, forecast_index \in {Euribor6M} :
        LET self == Swaption(swap, expiries, is_long) IN
        Returns("Swaption.mark_to_market", <<self, forecast_index, o>>,
                Swaption_mark_to_market(self, forecast_index, curves, handles, o))

\* Swaption(swap=swap, expiries=).mtm(forecast_index, discount_nodes)
Swaption_mtm_call ==
    \E expiries \in SingleExpiry, is_long \in {TRUE},
       o \in DiscountingCurves, forecast_index \in ForecastIndex \ {USDLibor} :
        LET self == Swaption(swap, expiries, is_long) IN
        Returns("Swaption.mtm", <<self, forecast_index, o>>,
                Swaption_mtm(self, forecast_index, curves, handles, o))

\* the vol_type argument
VolTypes == {"black", "normal", "lognormal", "Black", "NORMAL"}

\* the strike argument, in basis points
Strikes == {NoStrike, SomeStrike(0), SomeStrike(1)}

\* Swaption(swap=swap, expiries=, vol_type=, is_long=).vega(forecast_index,
\* discount_nodes)
Swaption_vega_call ==
    \E expiries \in SingleExpiry, is_long \in BOOLEAN, vol_type \in VolTypes,
       o \in DiscountingCurves, forecast_index \in {Euribor6M} :
        LET self == [Swaption(swap, expiries, is_long) EXCEPT !.vol_type = vol_type]
        IN
        Returns("Swaption.vega", <<self, forecast_index, o>>,
                Swaption_vega(self, forecast_index, curves, handles, o))

\* Swaption(swap=swap, expiries=).implied_volatility(target_npv,
\* forecast_index, discount_nodes)
Swaption_implied_volatility_call ==
    \E expiries \in SingleExpiry, is_long \in {TRUE}, target_npv \in NPVValues,
       o \in DiscountingCurves, forecast_index \in {Euribor6M} :
        LET self == Swaption(swap, expiries, is_long) IN
        Returns("Swaption.implied_volatility",
                <<self, forecast_index, o, target_npv>>,
                Swaption_implied_volatility(self, target_npv, forecast_index,
                                            curves, handles, o))

\* Swaption(swap=swap, expiries=, strike=).atm_strike(forecast_index,
\* discount_nodes)
Swaption_atm_strike_call ==
    \E expiries \in SingleExpiry, strike \in Strikes,
       o \in DiscountingCurves, forecast_index \in {Euribor6M} :
        LET self == [Swaption(swap, expiries, TRUE) EXCEPT !.strike = strike] IN
        Returns("Swaption.atm_strike", <<self, forecast_index, o>>,
                Swaption_atm_strike(self, forecast_index, curves, handles, o))

\* swap.floating_leg.cashflows(forecast_index)
FloatingLeg_cashflows_call ==
    \E forecast_index \in ForecastIndex, q \in QLOutcomes(swap) :
        /\ floating_leg(swap).err = OK
        /\ LET r == FloatingLeg_cashflows(LegOf(swap, floating_leg(swap).ret),
                                         forecast_index, q)
           IN
           Returns("FloatingLeg.cashflows", <<forecast_index>>,
                   [err |-> r.err, curves |-> curves, handles |-> handles,
                    built |-> r.err = OK,
                    ret |-> IF r.err = OK
                            THEN [fn |-> "cashflows", args |-> <<r.ret>>]
                            ELSE NoValue])

\* the program asks a curve that has no handle yet for its handle, before
\* the swap is valued
Pricing_yts_handle ==
    /\ Ready
    /\ \E o \in 1..Len(curves) :
        LET r == yts_handle(curves, handles, o) IN
        /\ curves[o].yts_handle = NoHandle
        /\ curves' = r.curves
        /\ handles' = r.handles
        /\ last' = Call("yts_handle", o, <<>>, r.ret, r.err, r.built)
    /\ UNCHANGED <<swap, readers, leg, caller>>

NextPricing ==
    \/ Pricing_yts_handle
    \/ Pricing_make_forecast_index
    \/ InterestRateSwap_getCashFlows
    \/ InterestRateSwap_debug
    \/ InterestRateSwap_mark_to_market
    \/ InterestRateSwap_mtm
    \/ InterestRateSwap_pv01
    \/ InterestRateSwap_dv01
    \/ InterestRateSwap_ir01_discount
    \/ InterestRateSwap_ir01_forecast
    \/ Swaption_mark_to_market_call
    \/ Swaption_mtm_call
    \/ Swaption_vega_call
    \/ Swaption_implied_volatility_call
    \/ Swaption_atm_strike_call
    \/ FloatingLeg_cashflows_call

SpecPricing == InitPricing /\ [][NextPricing]_vars

----------------------------------------------------------------------------
(* A program builds its dates and quotes as lists or as tuples, constructs  *)
(* a curve from them and goes on using its lists. The dataclass assigns    *)
(* the arguments to the fields and __post_init__ replaces neither: a field  *)
(* of the curve is the object the caller passed.                            *)

InitAlias ==
    /\ curves = <<>>
    /\ handles = <<>>
    /\ swap = NoSwap
    /\ last = Call("none", 0, <<>>, 0, OK, FALSE)
    /\ readers = <<>>
    /\ leg = NoLeg
    /\ caller \in [type : {"list", "tuple"}, dates : SeqsUpTo(Dates, MaxLen),
                   quotes : SeqsUpTo(QuoteValues, MaxLen), held_by : {{}}]

\* CurveNodes(as_of=, dates=dates, quotes=quotes, day_counter=, quote_kind=)
\* on the sequences of the caller
Alias_CurveNodes ==
    /\ Len(curves) < 1
    /\ \E as_of \in AsOfs, quote_kind \in QuoteKind :
        LET role == DefaultRole("CurveNodes")
            r == construct(curves, "termstructures", as_of, caller.dates, caller.quotes,
                           "Actual365Fixed", quote_kind, role) IN
        /\ curves' = r.curves
        /\ handles' = HandlesFor(handles, r.curves)
        /\ caller' = IF r.err = OK
                      THEN [caller EXCEPT !.held_by = @ \cup {r.ret}]
                      ELSE caller
        /\ last' = Call("CurveNodes", 0,
                        <<as_of, caller.dates, caller.quotes, quote_kind, role>>,
                        r.ret, r.err, FALSE)
    /\ UNCHANGED <<swap, readers, leg>>

\* dates.append(d), quotes.append(v), dates.pop(), quotes.pop() or
\* quotes[0] = v on the lists of the caller, after the curve was constructed:
\* a list changes in place, for everyone who holds it
Caller_mutate ==
    /\ caller.type = "list"
    /\ Len(curves) = 1
    /\ \E m \in {[dates |-> Append(caller.dates, d), quotes |-> caller.quotes,
                   op |-> "list.append"] : d \in Dates}
            \cup {[dates |-> caller.dates, quotes |-> Append(caller.quotes, v),
                   op |-> "list.append"] : v \in QuoteValues}
            \cup {[dates |-> SubSeq(caller.dates, 1, Len(caller.dates) - 1),
                   quotes |-> caller.quotes, op |-> "list.pop"] :
                        x \in {1} \cap DOMAIN caller.dates}
            \cup {[dates |-> caller.dates, op |-> "list.pop",
                   quotes |-> SubSeq(caller.quotes, 1, Len(caller.quotes) - 1)] :
                        x \in {1} \cap DOMAIN caller.quotes}
            \cup {[dates |-> caller.dates, op |-> "list.__setitem__",
                   quotes |-> <<v>> \o SubSeq(caller.quotes, 2, Len(caller.quotes))] :
                        v \in {w \in QuoteValues : caller.quotes # <<>>}} :
        /\ Len(m.dates) <= MaxLen + 1
        /\ Len(m.quotes) <= MaxLen + 1
        /\ m.dates # caller.dates \/ m.quotes # caller.quotes
        /\ caller' = [caller EXCEPT !.dates = m.dates, !.quotes = m.quotes]
        /\ curves' = IF 1 \in caller.held_by
                      THEN <<[curves[1] EXCEPT !.dates = m.dates,
                                               !.quotes = m.quotes]>>
                      ELSE curves
        /\ last' = Call(m.op, 0, <<m.dates, m.quotes>>, 0, OK, FALSE)
    /\ UNCHANGED <<handles, swap, readers, leg>>

NextAlias ==
    \/ Alias_CurveNodes
    \/ Caller_mutate

SpecAlias == InitAlias /\ [][NextAlias]_vars

----------------------------------------------------------------------------
(* CurveNodes.yts_handle called by several threads on one shared curve. The  *)
(* method takes no lock, so a thread can be preempted between reading the   *)
(* cache, building the handle and storing it.                                *)

\* the curves a constructor returns
ValidCurves ==
    {c \in [as_of : AsOfs, dates : SeqsUpTo(Dates, MaxLen),
            quotes : SeqsUpTo(QuoteValues, MaxLen),
            day_counter : {"Actual365Fixed"}, quote_kind : AnyQuoteKind,
            module : {"structures"},
            role : {DefaultRole("CurveNodes")}, yts_handle : {NoHandle}] :
        post_init(c.dates, c.quotes, c.quote_kind) = OK}

\* a thread about to call yts_handle(): where it is, the handle it holds in
\* its local variable, whether it has stored into the cache, what it returned
Reader(pc, handle, wrote, ret) ==
    [pc |-> pc, handle |-> handle, wrote |-> wrote, ret |-> ret]

InitConc ==
    /\ \E c \in ValidCurves : curves = <<c>>
    /\ handles = <<<<>>>>
    /\ last = Call("none", 0, <<>>, 0, OK, FALSE)
    /\ swap = NoSwap
    /\ readers = [i \in 1..NumReaders |-> Reader("call", NoHandle, FALSE, NoHandle)]
    /\ leg = NoLeg
    /\ caller = NoCaller

\* h = self._yts_handle; if h is not None: return h
Reader_read ==
    /\ \E i \in 1..NumReaders :
        /\ readers[i].pc = "call"
        /\ LET h == curves[1].yts_handle IN
            readers' = [readers EXCEPT ![i] =
                            IF h # NoHandle THEN Reader("returned", h, FALSE, h)
                            ELSE Reader("build", NoHandle, FALSE, NoHandle)]
    /\ UNCHANGED <<curves, handles, last, swap, leg, caller>>

\* yts = ...; handle = YieldTermStructureHandle(yts), or the error raised
Reader_build ==
    /\ \E i \in 1..NumReaders :
        /\ readers[i].pc = "build"
        /\ LET b == build_yts(curves[1]) IN
            IF b.err # OK
            THEN /\ readers' = [readers EXCEPT ![i] =
                                    Reader("raised", NoHandle, FALSE, NoHandle)]
                 /\ UNCHANGED handles
            ELSE /\ handles' = [handles EXCEPT ![1] =
                                    Append(@, YieldTermStructureHandle(b.yts))]
                 /\ readers' = [readers EXCEPT ![i] =
                                    Reader("store", <<1, Len(handles[1]) + 1>>, FALSE,
                                           NoHandle)]
    /\ UNCHANGED <<curves, last, swap, leg, caller>>

\* object.__setattr__(self, "_yts_handle", handle); return handle
Reader_store ==
    /\ \E i \in 1..NumReaders :
        /\ readers[i].pc = "store"
        /\ curves' = [curves EXCEPT ![1].yts_handle = readers[i].handle]
        /\ readers' = [readers EXCEPT ![i] =
                            Reader("returned", @.handle, TRUE, @.handle)]
    /\ UNCHANGED <<handles, last, swap, leg, caller>>

NextConc ==
    \/ Reader_read
    \/ Reader_build
    \/ Reader_store

SpecConc == InitConc /\ [][NextConc]_vars

----------------------------------------------------------------------------
(* The arithmetic of bump: a program holds one constructed curve, with any  *)
(* as_of, role and quotes a constructor accepts, and bumps it and its bumps. *)

\* node dates, and as_of before, on and after them
BumpDates == 0..(MaxDate + 1)
BumpAsOfs == BumpDates

\* the quotes of the sequential model, and the smallest discount factor
\* above 0.0
BumpQuoteValues == QuoteValues \cup {DfMin}

\* the curves a constructor returns
BumpCurves ==
    {c \in [as_of : BumpAsOfs, dates : SeqsUpTo(BumpDates, MaxLen),
            quotes : SeqsUpTo(BumpQuoteValues, MaxLen),
            day_counter : {"Actual365Fixed"}, quote_kind : AnyQuoteKind,
            module : {"termstructures"},
            role : CurveRole, yts_handle : {NoHandle}] :
        post_init(c.dates, c.quotes, c.quote_kind) = OK}

InitBump ==
    /\ \E c \in BumpCurves : curves = <<c>>
    /\ handles = <<<<>>>>
    /\ last = Call("none", 0, <<>>, 0, OK, FALSE)
    /\ swap = NoSwap
    /\ readers = <<>>
    /\ leg = NoLeg
    /\ caller = NoCaller

NextBump == CurveNodes_bump

SpecBump == InitBump /\ [][NextBump]_vars

----------------------------------------------------------------------------
(* A swap leg on its own: its payment schedule, the part of it that is      *)
(* still to come, and its nominals.  Dates and periods are integers (a      *)
(* period is a whole number of date units) and every date is a business     *)
(* day, so that the calendar adjusts nothing.                               *)

LegDates == 0..MaxLegDate
Nominals == {-1, 1, 2}
AmortizationAmounts == {1, 2}

\* AmortizedSwapLeg.amortization_schedule: [err, dates]
amortization_schedule(self) ==
    forward_marching_schedule(self.amortization_first_date,
                              self.amortization_last_date,
                              self.amortization_period)

\* the amortization counted over the amortization dates before date only
amortized_before(self, date) ==
    self.amortization_amount *
        Cardinality({k \in 1..Len(amortization_schedule(self).dates) :
                        amortization_schedule(self).dates[k] < date})

\* sum(self.amortization_amount for amortization_date in
\*     self.amortization_schedule.dates() if amortization_date <= date)
amortized(self, date) ==
    self.amortization_amount *
        Cardinality({k \in 1..Len(amortization_schedule(self).dates) :
                        amortization_schedule(self).dates[k] <= date})

max(a, b) == IF a >= b THEN a ELSE b

\* AmortizedSwapLeg.nominals without the floor at 0.0
AmortizedSwapLeg_nominals_unfloored(self) ==
    IF schedule(self).err # OK THEN [err |-> schedule(self).err, ret |-> <<>>]
    ELSE IF amortization_schedule(self).err # OK
    THEN [err |-> amortization_schedule(self).err, ret |-> <<>>]
    ELSE [err |-> OK,
          ret |-> [i \in 1..Len(schedule(self).dates) |->
                      self.nominal - amortized(self, schedule(self).dates[i])]]

\* AmortizedSwapLeg.nominals: [err, ret]
AmortizedSwapLeg_nominals(self) ==
    IF schedule(self).err # OK THEN [err |-> schedule(self).err, ret |-> <<>>]
    ELSE IF amortization_schedule(self).err # OK
    THEN [err |-> amortization_schedule(self).err, ret |-> <<>>]
    ELSE [err |-> OK,
          ret |-> [i \in 1..Len(schedule(self).dates) |->
                      max(0, self.nominal - amortized(self, schedule(self).dates[i]))]]

\* SwapLeg.nominals: [err, ret]
SwapLeg_nominals(self) ==
    IF schedule(self).err # OK THEN [err |-> schedule(self).err, ret |-> <<>>]
    ELSE [err |-> OK, ret |-> [i \in 1..Len(schedule(self).dates) |-> self.nominal]]

\* self.nominals, by the class of self
nominals(self) ==
    IF isinstance(self, "AmortizedSwapLeg") THEN AmortizedSwapLeg_nominals(self)
    ELSE SwapLeg_nominals(self)

\* the entries of ns at the positions where dates has a date that test accepts
RECURSIVE zip_filter(_, _, _)
zip_filter(ns, dates, corrected_start) ==
    IF ns = <<>> \/ dates = <<>> THEN <<>>
    ELSE (IF Head(dates) > corrected_start THEN <<Head(ns)>> ELSE <<>>)
            \o zip_filter(Tail(ns), Tail(dates), corrected_start)

\* future_nominals taken from the front of nominals, as many as there are
\* dates in future_schedule
future_nominals_from_front(self) ==
    IF nominals(self).err # OK THEN nominals(self)
    ELSE [err |-> OK,
          ret |-> SubSeq(nominals(self).ret, 1, Len(future_schedule(self).dates))]

\* SwapLeg.future_nominals: [err, ret]
future_nominals(self) ==
    LET corrected_start == self.valuation_date - self.tenor IN
    IF nominals(self).err # OK THEN nominals(self)
    ELSE [err |-> OK,
          ret |-> zip_filter(nominals(self).ret, schedule(self).dates, corrected_start)]

\* SwapLeg.__post_init__ and AmortizedSwapLeg.__post_init__: OK or the error
SwapLeg_post_init(self) ==
    IF self.nominal < 0 THEN "ValueError: nominal must be positive"
    ELSE IF self.currency \notin Currency
    THEN "ValueError: currency is not supported in QuantLib - unable to create index"
    ELSE IF ~isinstance(self, "AmortizedSwapLeg") THEN OK
    ELSE IF nominals(self).err # OK THEN nominals(self).err
    ELSE IF ~(\A i \in 1..Len(nominals(self).ret) : nominals(self).ret[i] >= 0)
    THEN "ValueError: Amortized swap leg cannot produce negative cashflow nominals."
    ELSE OK

\* the arguments of a leg constructor, the fields of the leg object it makes:
\* the four amortization fields exist in the amortized classes only and are
\* 0 in the others; no index is bound
LegArgs ==
    {l \in [cls : LegClass, valuation_date : LegDates, nominal : Nominals,
             currency : {"EUR"}, issue_date : 0..1, maturity : LegDates,
             tenor : Tenors, index : {None},
             amortization_amount : AmortizationAmounts \cup {0},
             amortization_period : Tenors \cup {0},
             amortization_first_date : 0..1,
             amortization_last_date : LegDates] :
        IF issubclass(l.cls, "AmortizedSwapLeg")
        THEN l.amortization_amount # 0 /\ l.amortization_period # 0
        ELSE /\ l.amortization_amount = 0 /\ l.amortization_period = 0
             /\ l.amortization_first_date = 0 /\ l.amortization_last_date = 0}

\* cls(valuation_date=, nominal=, ...): the object exists only when
\* __post_init__ returns
SwapLeg_init ==
    /\ last.op = "none"
    /\ \E self \in LegArgs :
        LET e == SwapLeg_post_init(self) IN
        /\ leg' = IF e = OK THEN self ELSE NoLeg
        /\ last' = Call(self.cls, 0, <<self>>, 0, e, FALSE)
    /\ UNCHANGED <<curves, handles, swap, readers, caller>>

\* the result of reading a property of the leg
Reads(op, r, ret) ==
    /\ leg # NoLeg
    /\ last' = Call(op, 0, <<>>, ret, r.err, FALSE)
    /\ UNCHANGED <<curves, handles, swap, readers, leg, caller>>

\* leg.schedule
SwapLeg_schedule == Reads("schedule", schedule(leg), schedule(leg).dates)

\* leg.future_schedule
SwapLeg_future_schedule ==
    Reads("future_schedule", future_schedule(leg), future_schedule(leg).dates)

\* leg.nominals
SwapLeg_nominals_get == Reads("nominals", nominals(leg), nominals(leg).ret)

\* leg.future_nominals
SwapLeg_future_nominals ==
    Reads("future_nominals", future_nominals(leg), future_nominals(leg).ret)

\* FixedRateLeg(schedule, ...) and IborLeg(schedule=, ...): one coupon for
\* each two consecutive dates of the schedule, accruing from the first to the
\* second and paid on the second
coupons(dates) ==
    [i \in 1..(Len(dates) - 1) |->
        [accrual_start |-> dates[i], accrual_end |-> dates[i + 1],
         date |-> dates[i + 1]]]

\* leg.cashflows() of a fixed leg and leg.cashflows(forecast_index) of a
\* floating leg: the coupons over future_schedule; q tells what the leg
\* builder does with a schedule of fewer than two dates
SwapLeg_cashflows ==
    \E q \in QLOutcome :
        /\ leg # NoLeg
        /\ isinstance(leg, "FixedLeg") \/ isinstance(leg, "FloatingLeg")
        /\ LET r == future_schedule(leg)
               e == ScheduleError(leg, q)
           IN Reads("cashflows", [err |-> e],
                    IF e = OK THEN coupons(r.dates) ELSE <<>>)

NextLeg ==
    \/ SwapLeg_init
    \/ SwapLeg_cashflows
    \/ SwapLeg_schedule
    \/ SwapLeg_future_schedule
    \/ SwapLeg_nominals_get
    \/ SwapLeg_future_nominals

SpecLeg == Init /\ [][NextLeg]_vars

----------------------------------------------------------------------------
(* CurveNodes: properties *)

StrictlyIncreasing(dates) ==
    \A i \in 1..Len(dates), j \in 1..Len(dates) : i < j => dates[i] < dates[j]

\* a discount factor in (0, 1], in the z-encoding
InUnitInterval(z) == 0 <= z /\ z < DfZero

Constructors ==
    {"CurveNodes", "from_zeros", "from_discounts", "from_forwards", "from_flat"}

\* the arguments <<as_of, dates, quotes, quote_kind, role>> break an invariant
Malformed(a) ==
    \/ a[2] = <<>>
    \/ Len(a[2]) # Len(a[3])
    \/ ~StrictlyIncreasing(a[2])
    \/ a[4] = "discount" /\ \E i \in 1..Len(a[3]) : ~InUnitInterval(a[3][i])

\* C5: every constructor, called on an empty node set, on dates and quotes
\* of different lengths, on dates that are not strictly increasing or, for
\* quote_kind discount, on a quote outside (0, 1], raises and creates no object.
C5_MalformedIsRejected ==
    last.op \in Constructors /\ Malformed(last.args)
        => last.err # OK /\ curves = <<>>

\* from_zeros was called with two equal dates and raised
C5_Witness ==
    /\ last.op = "from_zeros"
    /\ Len(last.args[2]) = 2 /\ last.args[2][1] = last.args[2][2]
    /\ Len(last.args[3]) = 2
    /\ last.err # OK

\* C6: every CurveNodes of quote_kind flat has exactly one quote (so that
\* constructing one with another number of quotes fails).
C6_FlatHasOneQuote ==
    \A o \in 1..Len(curves) :
        curves[o].quote_kind = "flat" => Len(curves[o].quotes) = 1

\* C7: for every constructed CurveNodes, whatever its quote_kind, a bump that
\* returns returns a new object, never the receiver.
C7_BumpReturnsNewObject ==
    last.op = "bump" /\ last.err = OK => last.ret # last.self

\* the discount factor self.discount_factor(d) has to return, from self's own
\* fields
OwnDiscount(c, d) == discount(build_yts(c).yts, d).df

\* C8: bump leaves the receiver's fields and cached handle as they were, and
\* with them its discount factors; the curve it returns has no cached
\* handle; and a discount factor is always computed from the quotes of the
\* curve it is asked of.
C8_BumpFrame ==
    [][/\ last'.op = "bump" =>
            LET o == last'.self IN
            /\ curves'[o] = curves[o]
            /\ handles'[o] = handles[o]
            /\ \A p \in 1..Len(curves) : curves'[p] = curves[p]
            /\ last'.err = OK /\ last'.ret # o =>
                    /\ curves'[last'.ret].yts_handle = NoHandle
                    /\ handles'[last'.ret] = <<>>
       /\ last'.op = "discount_factor" /\ last'.err = OK =>
            last'.ret = OwnDiscount(curves'[last'.self], last'.args[1])
      ]_vars

\* a curve whose handle was already cached has been bumped
C8_Witness ==
    /\ last.op = "bump" /\ last.err = OK
    /\ last.ret # last.self
    /\ curves[last.self].yts_handle # NoHandle
    /\ curves[last.ret].quotes # curves[last.self].quotes

\* C9: over any sequence of yts_handle, to_handle and discount_factor calls
\* a CurveNodes builds at most one curve object; a call that finds the handle
\* stored builds nothing, and yts_handle and to_handle return the stored
\* handle, which is the one the first successful call built.
C9_BuiltAtMostOnce ==
    /\ \A o \in 1..Len(curves) :
            /\ Len(handles[o]) <= 1
            /\ curves[o].yts_handle = (IF handles[o] = <<>> THEN NoHandle ELSE <<o, 1>>)
    /\ last.op \in {"yts_handle", "to_handle"} /\ last.err = OK =>
            last.ret = <<last.self, 1>>

\* a call found the handle stored: it returned it and built nothing
C9_Witness ==
    /\ last.op = "to_handle" /\ last.err = OK /\ ~last.built
    /\ last.ret = curves[last.self].yts_handle

----------------------------------------------------------------------------
(* InterestRateSwap and Swaption: properties *)

\* both legs are fixed, or both are floating
SameKind(p, r) ==
    \/ isinstance(p, "FixedLeg") /\ isinstance(r, "FixedLeg")
    \/ isinstance(p, "FloatingLeg") /\ isinstance(r, "FloatingLeg")

\* one leg is fixed and the other one is floating
FixedAndFloating(p, r) ==
    \/ isinstance(p, "FixedLeg") /\ isinstance(r, "FloatingLeg")
    \/ isinstance(p, "FloatingLeg") /\ isinstance(r, "FixedLeg")

\* the legs differ in one of the four fields that have to agree
Misaligned(p, r) ==
    \/ p.valuation_date # r.valuation_date
    \/ p.issue_date # r.issue_date
    \/ p.maturity # r.maturity
    \/ p.currency # r.currency

\* C1: constructing an InterestRateSwap raises and creates no swap when both
\* legs are FixedLeg (or subclasses), when both are FloatingLeg (or
\* subclasses), or when the legs differ in valuation_date, issue_date,
\* maturity or currency; it returns the swap of the two legs when one is a
\* FixedLeg, the other a FloatingLeg and the four fields agree, whichever
\* leg pays.
C1_SwapConstruction ==
    last.op = "InterestRateSwap" =>
        LET p == last.args[1]
            r == last.args[2]
        IN
        /\ SameKind(p, r) \/ Misaligned(p, r) =>
                last.err # OK /\ swap = NoSwap
        /\ FixedAndFloating(p, r) /\ ~Misaligned(p, r) =>
                last.err = OK /\ swap = InterestRateSwap(p, r)

\* a swap was constructed whose paying leg is the floating one
C1_Witness ==
    /\ last.op = "InterestRateSwap" /\ last.err = OK
    /\ swap # NoSwap
    /\ isinstance(swap.paying_leg, "FloatingLeg")
    /\ isinstance(swap.receiving_leg, "FixedLeg")

\* C2: every constructed swap pairs one fixed and one floating leg: fixed_leg
\* and floating_leg both resolve, and to the two different legs of the swap.
C2_OneFixedOneFloating ==
    swap # NoSwap =>
        /\ fixed_leg(swap).err = OK
        /\ floating_leg(swap).err = OK
        /\ fixed_leg(swap).ret # floating_leg(swap).ret

\* valuation_date >= maturity, on both legs of the swap
Expired(sw) ==
    /\ sw.paying_leg.valuation_date >= sw.paying_leg.maturity
    /\ sw.receiving_leg.valuation_date >= sw.receiving_leg.maturity

\* the first expiry of a swaption: the first of its expiries, and the swap's
\* issue_date when it has none
FirstExpiry(sp) ==
    IF sp.expiries.given /\ sp.expiries.dates # <<>>
    THEN sp.expiries.dates[1]
    ELSE sp.swap.receiving_leg.issue_date

\* the call returned the float 0.0 and built no pricing object
ReturnedZero == last.err = OK /\ last.ret.fn = "0.0" /\ ~last.built

\* C3: mark_to_market and mtm of a swap with valuation_date >= maturity, and
\* of a swaption with valuation_date >= its first expiry, return 0.0 and build
\* no pricing object, whether or not a forecast index is bound or supplied.
C3_ExpiredMarksToZero ==
    /\ last.op \in {"mark_to_market", "mtm"} /\ Expired(swap) => ReturnedZero
    /\ last.op \in {"Swaption.mark_to_market", "Swaption.mtm"}
            /\ swap.receiving_leg.valuation_date >= FirstExpiry(last.args[1])
        => ReturnedZero

\* mtm returned 0.0 for a swap valued on its maturity date, with no index
\* bound to the floating leg and none supplied
C3_Witness ==
    /\ last.op = "mtm" /\ last.err = OK /\ last.ret.fn = "0.0"
    /\ swap.receiving_leg.valuation_date = swap.receiving_leg.maturity
    /\ IsNone(last.args[1])
    /\ IsNone(swap.paying_leg.index) /\ IsNone(swap.receiving_leg.index)
    /\ FixedAndFloating(swap.paying_leg, swap.receiving_leg)

\* C4: on a swap with valuation_date >= maturity each of mark_to_market, mtm,
\* pv01, dv01, ir01_discount and ir01_forecast returns 0.0, without failing
\* and without building a pricing object.
C4_ExpiredValuationIsZero ==
    last.op \in {"mark_to_market", "mtm", "pv01", "dv01", "ir01_discount",
                 "ir01_forecast"}
        /\ FixedAndFloating(swap.paying_leg, swap.receiving_leg)
        /\ Expired(swap)
        => ReturnedZero

\* C10: when several readers call yts_handle on one CurveNodes whose handle is
\* not cached yet, the cache is stored into at most once and all readers that
\* return, return the same handle.
C10_WrittenOnce ==
    /\ Cardinality({i \in 1..NumReaders : readers[i].wrote}) <= 1
    /\ \A i, j \in 1..NumReaders :
            readers[i].pc = "returned" /\ readers[j].pc = "returned"
                => readers[i].ret = readers[j].ret

----------------------------------------------------------------------------
(* CurveNodes.bump: arithmetic *)

\* the fields bump passes through unchanged
SameNodes(c, b) ==
    /\ b.as_of = c.as_of /\ b.dates = c.dates /\ b.day_counter = c.day_counter
    /\ b.quote_kind = c.quote_kind /\ b.role = c.role
    /\ Len(b.quotes) = Len(c.quotes)

\* C11: bump(bp) of a zero, flat or forward curve returns a curve with every
\* quote raised by bp / 10000 (bp, in basis points), the same number of nodes,
\* and as_of, dates, day counter, quote_kind and role of the receiver.
C11_RatesShiftByBp ==
    last.op = "bump" /\ curves[last.self].quote_kind \in {"zero", "flat", "forward"} =>
        /\ last.err = OK
        /\ LET c == curves[last.self]  b == curves[last.ret] IN
            /\ SameNodes(c, b)
            /\ \A i \in 1..Len(c.quotes) : b.quotes[i] = c.quotes[i] + last.args[1]

\* a forecasting forward curve of two nodes has been bumped down
C11_Witness ==
    /\ last.op = "bump" /\ last.err = OK /\ last.args[1] < 0
    /\ curves[last.self].quote_kind = "forward"
    /\ curves[last.self].role = "forecasting"
    /\ Len(curves[last.self].quotes) = 2
    /\ curves[last.ret].quotes[2] = curves[last.self].quotes[2] + last.args[1]

----------------------------------------------------------------------------
(* Swap legs: schedules and nominals *)

\* valuation_date - tenor
Cutoff(l) == l.valuation_date - l.tenor

\* how many dates of the sequence dates are on or before date
CountUpTo(dates, date) == Cardinality({k \in 1..Len(dates) : dates[k] <= date})

\* C13: future_schedule holds the dates of schedule that are strictly after
\* valuation_date - tenor, in schedule order, and nothing else: schedule
\* without its leading dates on or before the cutoff.
C13_FutureScheduleIsTail ==
    last.op = "future_schedule" /\ last.err = OK =>
        LET dates == schedule(leg).dates IN
        /\ last.ret = SubSeq(dates, CountUpTo(dates, Cutoff(leg)) + 1, Len(dates))
        /\ \A i \in 1..Len(last.ret) : last.ret[i] > Cutoff(leg)
        /\ \A j \in 1..Len(dates) :
                dates[j] > Cutoff(leg) => \E i \in 1..Len(last.ret) : last.ret[i] = dates[j]

\* a schedule date lies on the cutoff, and later dates remain
C13_Witness ==
    /\ last.op = "future_schedule" /\ last.err = OK
    /\ \E j \in 1..Len(schedule(leg).dates) : schedule(leg).dates[j] = Cutoff(leg)
    /\ last.ret # <<>>
    /\ Len(last.ret) < Len(schedule(leg).dates)

\* C14: future_nominals is as long as future_schedule, and its i-th entry is
\* the nominal of the schedule date that is the i-th date of future_schedule.
C14_FutureNominalsAligned ==
    last.op = "future_nominals" /\ last.err = OK =>
        LET dates == schedule(leg).dates
            future == future_schedule(leg).dates
        IN
        /\ Len(last.ret) = Len(future)
        /\ \A i \in 1..Len(future) :
            \E j \in 1..Len(dates) :
                dates[j] = future[i] /\ last.ret[i] = nominals(leg).ret[j]

\* the future nominals of an amortized leg start later than its nominals
C14_Witness ==
    /\ last.op = "future_nominals" /\ last.err = OK
    /\ isinstance(leg, "AmortizedSwapLeg")
    /\ last.ret # <<>>
    /\ Len(last.ret) < Len(nominals(leg).ret)
    /\ last.ret[1] # nominals(leg).ret[1]

\* C15: the nominal of an amortized leg at a schedule date is the initial
\* nominal less amortization_amount for every amortization date on or before
\* that date, and 0 where that is negative.
C15_AmortizedNominals ==
    last.op = "nominals" /\ last.err = OK /\ isinstance(leg, "AmortizedSwapLeg") =>
        LET dates == schedule(leg).dates
            amortization_dates == amortization_schedule(leg).dates
        IN
        /\ Len(last.ret) = Len(dates)
        /\ \A i \in 1..Len(dates) :
            LET n == leg.nominal
                        - leg.amortization_amount * CountUpTo(amortization_dates, dates[i])
            IN
            /\ last.ret[i] = (IF n < 0 THEN 0 ELSE n)
            /\ last.ret[i] >= 0

\* the amortization has used up the nominal and gone beyond it
C15_Witness ==
    /\ last.op = "nominals" /\ last.err = OK /\ isinstance(leg, "AmortizedSwapLeg")
    /\ \E i \in 1..Len(last.ret) :
        /\ last.ret[i] = 0
        /\ leg.nominal - leg.amortization_amount
                * CountUpTo(amortization_schedule(leg).dates, schedule(leg).dates[i]) < 0
    /\ last.ret[1] > 0

\* C16: the constructor of an amortized leg raises when the nominal less the
\* amortization up to some schedule date is negative.
C16_NegativeNominalRejected ==
    /\ last.op \in {"AmortizedSwapLeg", "AmortizedFixedLeg", "AmortizedFloatingLeg"}
    /\ schedule(last.args[1]).err = OK
    /\ amortization_schedule(last.args[1]).err = OK
    /\ \E i \in 1..Len(schedule(last.args[1]).dates) :
            last.args[1].nominal - last.args[1].amortization_amount
                * CountUpTo(amortization_schedule(last.args[1]).dates,
                            schedule(last.args[1]).dates[i]) < 0
    => last.err # OK

----------------------------------------------------------------------------
(* Index resolution and the finite-difference sensitivities *)

\* the index to use: the explicit argument, else the bound one (None if none)
Resolved(arg, bound) == IF ~IsNone(arg) THEN arg ELSE bound

\* the floating leg of the swap
TheFloatingLeg == LegOf(swap, floating_leg(swap).ret)

\* the forecast index argument of the last valuation call
IndexArg ==
    CASE last.op \in {"mark_to_market", "pv01", "dv01", "ir01_discount"} -> last.args[2]
      [] last.op = "mtm" -> last.args[1]
      [] last.op = "ir01_forecast" -> last.args[3]
      [] last.op = "FloatingLeg.cashflows" -> last.args[1]

\* the pricing swap behind a result: the one priced for NPV or legBPS, and
\* the base one of a finite difference
BaseSwapQL(ret) ==
    IF ret.fn \in {"NPV", "legBPS"} THEN ret.args[1] ELSE ret.args[2].args[1]

\* the bumped pricing swap of a finite difference
BumpedSwapQL(ret) == ret.args[1].args[1]

\* the index the floating cash flows of a pricing swap were built on
IndexUsed(swap_ql) ==
    IF swap_ql.legs[1].ctor = "IborLeg" THEN swap_ql.legs[1].index
    ELSE swap_ql.legs[2].index

ValuationOps ==
    {"mark_to_market", "mtm", "pv01", "dv01", "ir01_discount", "ir01_forecast"}

\* C17: FloatingLeg.cashflows builds its coupons on the forecast_index passed
\* to it, on the leg's bound index when none is passed, and raises without
\* building anything when there is neither; valuing a swap that has not
\* expired resolves the index in the same order.
C17_IndexPrecedence ==
    /\ last.op = "FloatingLeg.cashflows" =>
        LET idx == Resolved(IndexArg, TheFloatingLeg.index) IN
        /\ IsNone(idx) => last.err = "ValueError: FloatingLeg needs an Index" /\ ~last.built
        /\ ~IsNone(idx) => last.err # "ValueError: FloatingLeg needs an Index"
        /\ last.err = OK => last.ret.args[1].index = idx
    /\ last.op \in ValuationOps /\ ~Expired(swap)
            /\ FixedAndFloating(swap.paying_leg, swap.receiving_leg) =>
        LET idx == Resolved(IndexArg, TheFloatingLeg.index) IN
        /\ IsNone(idx) => last.err = "ValueError: Missing forecasting Index" /\ ~last.built
        /\ ~IsNone(idx) => last.err # "ValueError: Missing forecasting Index"
        /\ last.err = OK => IndexUsed(BaseSwapQL(last.ret)) = idx

\* a swap whose floating leg is bound to one index has been priced with
\* another index passed explicitly
C17_Witness ==
    /\ last.op = "mark_to_market" /\ last.err = OK /\ ~Expired(swap)
    /\ FixedAndFloating(swap.paying_leg, swap.receiving_leg)
    /\ TheFloatingLeg.index = Euribor6M
    /\ IndexArg = USDLibor
    /\ IndexUsed(BaseSwapQL(last.ret)) = USDLibor

\* the curve bump(bp) makes of curve o
Bumped(o, bp) == bump(curves, o, bp).curves[bump(curves, o, bp).ret]

\* the term structure a pricing engine on curve c discounts with
EngineOn(c) == build_yts(c).yts

\* C18: for a swap that has not expired and bump_bp # 0, ir01_discount is
\* (bumped - base) / bump_bp, where base is the NPV of the swap priced on
\* discount_nodes and bumped its NPV priced on discount_nodes.bump(bump_bp),
\* with the same index and the same leg cash flows; the two NPVs are what
\* mark_to_market returns on the two curves.
C18_Ir01DiscountIsFiniteDifference ==
    last.op = "ir01_discount" /\ last.err = OK /\ ~Expired(swap) /\ last.args[3] # 0 =>
        LET o == last.args[1]
            bump_bp == last.args[3]
            base == BaseSwapQL(last.ret)
            bumped == BumpedSwapQL(last.ret)
        IN
        /\ last.ret = FiniteDifference(NPV(bumped), NPV(base), bump_bp)
        /\ base.engine = EngineOn(curves[o])
        /\ bumped.engine = EngineOn(Bumped(o, bump_bp))
        /\ bumped.legs = base.legs
        /\ IndexUsed(bumped) = IndexUsed(base)
        /\ NPV(base) = mark_to_market(swap, curves, handles, o, last.args[2], "ok").ret
        /\ NPV(bumped) =
                mark_to_market(swap, <<Bumped(o, bump_bp)>>, <<<<>>>>, 1, last.args[2], "ok").ret

\* ir01_discount returned for a bump of one basis point on the discount curve
\* of two nodes, whose bumped curve discounts differently
C18_Witness ==
    /\ last.op = "ir01_discount" /\ last.err = OK /\ ~Expired(swap)
    /\ last.args[3] = 1
    /\ curves[last.args[1]].quote_kind = "discount"
    /\ BumpedSwapQL(last.ret).engine # BaseSwapQL(last.ret).engine

\* C19: ir01_forecast is (bumped - base) / bump_bp, where base is priced on
\* the resolved base index and bumped on a clone of it linked to
\* forecast_nodes.bump(bump_bp), both discounted on the original
\* discount_nodes; the base index and the index bound to the floating leg
\* stay as they are.
C19_Ir01ForecastClonesIndex ==
    last.op = "ir01_forecast" /\ last.err = OK
            /\ FixedAndFloating(swap.paying_leg, swap.receiving_leg) =>
        LET f == last.args[1]
            o == last.args[2]
            bump_bp == last.args[4]
            idx0 == Resolved(last.args[3], TheFloatingLeg.index)
            base == BaseSwapQL(last.ret)
            bumped == BumpedSwapQL(last.ret)
        IN
        /\ last.ret = FiniteDifference(NPV(bumped), NPV(base), bump_bp)
        /\ IndexUsed(base) = idx0
        /\ IndexUsed(bumped) = [idx0 EXCEPT !.link = EngineOn(Bumped(f, bump_bp))]
        /\ IndexUsed(bumped) # idx0
        /\ base.engine = EngineOn(curves[o])
        /\ bumped.engine = EngineOn(curves[o])
        /\ TheFloatingLeg.index \in {None, Euribor6M}

\* ir01_forecast returned for a swap priced on its bound index, with a
\* forecasting curve that is not the discounting curve
C19_Witness ==
    /\ last.op = "ir01_forecast" /\ last.err = OK
    /\ FixedAndFloating(swap.paying_leg, swap.receiving_leg)
    /\ last.args[1] # last.args[2]
    /\ IsNone(last.args[3])
    /\ IndexUsed(BaseSwapQL(last.ret)) = Euribor6M
    /\ IndexUsed(BumpedSwapQL(last.ret)).link = EngineOn(Bumped(last.args[1], last.args[4]))

\* the bump moved the rates of the bumped curve up
RatesRose(bump_bp) == bump_bp > 0

\* C20: when ir01_discount or ir01_forecast returns a positive number, the
\* NPV on the curve with the lower rates is the greater one: the NPV rises as
\* the rates of the bumped curve fall.
C20_PositiveMeansRisesAsRatesFall ==
    last.op \in {"ir01_discount", "ir01_forecast"} /\ last.err = OK =>
        \A npv_bumped, npv_base \in NPVValues :
            FiniteDifferenceSign(last.ret, npv_bumped, npv_base) > 0 =>
                IF RatesRose(last.ret.args[3])
                THEN npv_base > npv_bumped
                ELSE npv_bumped > npv_base

\* the fields of a curve other than its cached handle
NodesOf(c) == [as_of |-> c.as_of, dates |-> c.dates, quotes |-> c.quotes,
               day_counter |-> c.day_counter, quote_kind |-> c.quote_kind,
               role |-> c.role]

\* C21: a call of mark_to_market, mtm, pv01, dv01, ir01_discount or
\* ir01_forecast leaves the swap with its two legs and the index bound to the
\* floating leg as they were, leaves as_of, dates, quotes and quote_kind of
\* every curve as they were, and leaves no curve behind that was not there
\* before: the bumped curve lives inside the call only.
C21_ValuationIsPure ==
    [][last'.op \in ValuationOps =>
            /\ swap' = swap
            /\ Len(curves') = Len(curves)
            /\ Len(handles') = Len(handles)
            /\ \A o \in 1..Len(curves) : NodesOf(curves'[o]) = NodesOf(curves[o])
      ]_vars

\* ir01_forecast returned, having bumped the forecasting curve and built the
\* handle of the discounting curve
C21_Witness ==
    /\ last.op = "ir01_forecast" /\ last.err = OK
    /\ last.args[1] # last.args[2]
    /\ Len(curves) = Len(PricingCurves("structures"))
    /\ curves[last.args[2]].yts_handle # NoHandle
    /\ curves[last.args[1]].yts_handle = NoHandle

\* C23: atm_strike returns the fair rate of the payoff swap, whatever the
\* strike and the volatility of the swaption (the payoff swap takes the fair
\* rate of the swap for a strike of None and the strike given otherwise).
C23_AtmStrikeIsFairRate ==
    last.op = "Swaption.atm_strike" =>
        /\ last.err = OK
        /\ last.ret.fn = "fairRate"

\* the swaption priced by a call that returned a value
PricedSwaption(v) == IF v.fn = "-" THEN v.args[1].args[1] ELSE v.args[1]

\* C24: mark_to_market and vega of a swaption that has not expired price it
\* with the Black engine for a lognormal vol_type and the Bachelier engine for
\* a normal one, and return the value of the engine for a long position and
\* its negation for a short one.
C24_EngineByVolType ==
    /\ last.op \in {"Swaption.mark_to_market", "Swaption.vega"}
    /\ ~Swaption_is_expired(last.args[1])
    => /\ last.err = OK
       /\ last.ret.fn = "-" <=> ~last.args[1].is_long
       /\ last.args[1].vol_type \in {"black", "lognormal"} =>
            PricedSwaption(last.ret).args[4].fn = "BlackSwaptionEngine"
       /\ last.args[1].vol_type = "normal" =>
            PricedSwaption(last.ret).args[4].fn = "BachelierSwaptionEngine"

\* C25: mark_to_market, vega, atm_strike and implied_volatility of a swaption
\* that has not expired, long or short, return a value.
C25_SwaptionCallsReturn ==
    /\ last.op \in {"Swaption.mark_to_market", "Swaption.vega",
                    "Swaption.atm_strike", "Swaption.implied_volatility"}
    /\ ~Swaption_is_expired(last.args[1])
    => /\ last.err = OK
       /\ last.ret.fn # "None"

\* the exception class of an error: the class named by the raise statement
ErrorKind(e) ==
    IF e \in {"ValueError: at least one node is required",
              "ValueError: dates and quotes must have the same length",
              "ValueError: dates must be strictly increasing",
              "ValueError: discount factors must lie in (0, 1]",
              "ValueError: discount curve needs at least two discount nodes",
              "ValueError: forward curve needs at least two nodes",
              "ValueError: quote_kind=flat expects exactly one zero rate",
              "ValueError: Unsupported quote_kind"}
    THEN "ValueError"
    ELSE "RuntimeError"

\* the kinds of the errors a constructor raises on malformed nodes
MalformedKinds ==
    {ErrorKind(post_init(a[2], a[3], a[4])) :
        a \in {b \in {<<0, d, q, k>> : d \in SeqsUpTo(Dates, MaxLen),
                                      q \in SeqsUpTo(QuoteValues, MaxLen),
                                      k \in QuoteKind} : Malformed(b)}}

\* the call failed because the quote_kind of the curve is not a supported one
UnsupportedQuoteKind(l) ==
    /\ l.op \in {"yts_handle", "to_handle", "discount_factor"}
    /\ l.err = "ValueError: Unsupported quote_kind"

\* C26: the failures are told apart by the kind of the error: malformed
\* nodes given to a CurveNodes constructor and an unsupported quote_kind
\* (like the leg-pairing and the missing-index failures) never raise the same
\* kind of error.
C26_ErrorKindsDistinct ==
    UnsupportedQuoteKind(last) => ErrorKind(last.err) \notin MalformedKinds

\* the cash flows at the position a legBPS value was asked for
QueriedLeg(v) == v.args[1].legs[v.args[2] + 1]

\* C27: pv01 returns the BPS of the fixed leg and dv01 that of the floating
\* leg, whichever side each is on: position 0 of the pricing swap when the leg
\* is the paying leg and position 1 when it is the receiving leg, the pricing
\* swap being built on (paying leg, receiving leg); the two never ask for the
\* same position.
C27_LegPositions ==
    last.op \in {"pv01", "dv01"} /\ last.err = OK =>
        /\ last.ret.fn = "legBPS"
        /\ last.ret.args[2] \in {0, 1}
        /\ last.ret.args[1].legs[1].leg = swap.paying_leg
        /\ last.ret.args[1].legs[2].leg = swap.receiving_leg
        /\ last.op = "pv01" => QueriedLeg(last.ret).ctor = "FixedRateLeg"
        /\ last.op = "dv01" => QueriedLeg(last.ret).ctor = "IborLeg"
        /\ last.ret.args[2] = 0 <=> QueriedLeg(last.ret).leg = swap.paying_leg
        /\ LET other == IF last.op = "pv01"
                        THEN dv01(swap, curves, handles, last.args[1],
                                  last.args[2], "ok")
                        ELSE pv01(swap, curves, handles, last.args[1],
                                  last.args[2], "ok")
           IN  /\ other.err = OK
               /\ other.ret.args[2] # last.ret.args[2]

\* pv01 returned the BPS of a fixed leg that is the receiving leg
C27_Witness ==
    /\ last.op = "pv01" /\ last.err = OK
    /\ isinstance(swap.receiving_leg, "FixedLeg")
    /\ last.ret.args[2] = 1

\* C28: the nodes of a curve stay as they were constructed, whatever the
\* caller does afterwards to the sequences it passed: the curve keeps as many
\* dates as quotes, strictly increasing dates and, for quote_kind discount,
\* quotes in (0, 1].
C28_NodesStayValid ==
    \A o \in 1..Len(curves) :
        post_init(curves[o].dates, curves[o].quotes, curves[o].quote_kind) = OK

\* the coupons of the sequence cs that are paid after date
PaidAfter(cs, date) ==
    LET later(c) == c.date > date IN SelectSeq(cs, later)

\* C29: for a leg with valuation_date < maturity, whose schedule steps by
\* tenor from issue_date with a last period that may be shorter, the coupons
\* built over future_schedule are the coupons of the whole schedule that are
\* paid strictly after valuation_date; and future_schedule is schedule when
\* valuation_date < issue_date + tenor.
C29_FutureCouponsArePaidAfterValuation ==
    /\ last.op = "cashflows" /\ last.err = OK
    /\ leg.valuation_date < leg.maturity
    => /\ last.ret = PaidAfter(coupons(schedule(leg).dates), leg.valuation_date)
       /\ last.ret # <<>>
       /\ leg.valuation_date < leg.issue_date + leg.tenor =>
            future_schedule(leg).dates = schedule(leg).dates

\* the coupons of a leg were built some periods after its issue_date, with a
\* schedule date on the cutoff and a shorter last period
C29_Witness ==
    /\ last.op = "cashflows" /\ last.err = OK
    /\ leg.valuation_date < leg.maturity
    /\ leg.valuation_date >= leg.issue_date + leg.tenor
    /\ Len(last.ret) < Len(schedule(leg).dates) - 1
    /\ last.ret[Len(last.ret)].accrual_end - last.ret[Len(last.ret)].accrual_start
            < leg.tenor

\* C30: bump(bp) of a discount curve returns, for every bp, negative ones
\* included, a curve whose quotes all lie in (0, 1]: the bump never fails the
\* check of the constructor.
C30_DiscountBumpStaysInRange ==
    last.op = "bump" /\ curves[last.self].quote_kind = "discount" =>
        /\ last.err = OK
        /\ \A i \in 1..Len(curves[last.ret].quotes) :
                InUnitInterval(curves[last.ret].quotes[i])

====
